---------------------------- MODULE Spec2Model ----------------------------
(***************************************************************************)
(* Voice assistant (AIAssistantStandalone): the intent resolution          *)
(* pipeline, the recognition-result handler and the confirmation slot.     *)
(*                                                                         *)
(* Text.  A transcript is a sequence of characters; a character is a       *)
(* string.  Latin letters, digits and the space are themselves ("O", "k",  *)
(* " ").  A Hangul syllable is one character, written as its romanised     *)
(* jamo (initial, medial, final), a leading ' standing for the silent      *)
(* initial: 다음 is <<"da", "'eum">>, 네 is <<"ne">>.  Len therefore is the    *)
(* JavaScript string length.                                               *)
(*                                                                         *)
(* Confidence.  A confidence c of the source is the integer 100 * c        *)
(* (0.85 is 85), so the thresholds 0.3, 0.4, 0.5, 0.6 are 30, 40, 50, 60.  *)
(***************************************************************************)
EXTENDS Integers, Sequences, FiniteSets, Bags, TLC

(***************************************************************************)
(* String operations of the JavaScript runtime, as the code uses them.     *)
(***************************************************************************)

\* String.prototype.toLowerCase on one character (Hangul has no case)
LowerChar(c) ==
  CASE
       c = "A" -> "a"
    [] c = "B" -> "b"
    [] c = "C" -> "c"
    [] c = "D" -> "d"
    [] c = "E" -> "e"
    [] c = "F" -> "f"
    [] c = "G" -> "g"
    [] c = "H" -> "h"
    [] c = "I" -> "i"
    [] c = "J" -> "j"
    [] c = "K" -> "k"
    [] c = "L" -> "l"
    [] c = "M" -> "m"
    [] c = "N" -> "n"
    [] c = "O" -> "o"
    [] c = "P" -> "p"
    [] c = "Q" -> "q"
    [] c = "R" -> "r"
    [] c = "S" -> "s"
    [] c = "T" -> "t"
    [] c = "U" -> "u"
    [] c = "V" -> "v"
    [] c = "W" -> "w"
    [] c = "X" -> "x"
    [] c = "Y" -> "y"
    [] c = "Z" -> "z"
    [] OTHER -> c

\* String.prototype.toLowerCase
ToLowerCase(s) == [i \in 1..Len(s) |-> LowerChar(s[i])]

\* the characters \s matches, among those of the model
IsSpace(c) == c = " "

RECURSIVE TrimStart(_)
TrimStart(s) ==
  IF s # <<>> /\ IsSpace(Head(s)) THEN TrimStart(Tail(s)) ELSE s

RECURSIVE TrimEnd(_)
TrimEnd(s) ==
  IF s # <<>> /\ IsSpace(s[Len(s)]) THEN TrimEnd(SubSeq(s, 1, Len(s) - 1)) ELSE s

\* String.prototype.trim
Trim(s) == TrimEnd(TrimStart(s))

\* whether pattern p occurs in s at position i (1-based)
MatchAt(s, p, i) ==
  /\ i + Len(p) - 1 <= Len(s)
  /\ SubSeq(s, i, i + Len(p) - 1) = p

\* String.prototype.includes
Includes(s, p) == \E i \in 1..(Len(s) + 1) : MatchAt(s, p, i)

\* Array.prototype.some(keyword => s.includes(keyword))
IncludesSome(s, keywords) ==
  \E k \in 1..Len(keywords) : Includes(s, keywords[k])

\* s.split(/\s+/): the pieces between maximal runs of white space; a leading
\* or trailing run leaves an empty piece, and "" splits to [""]
RECURSIVE SplitFrom(_, _, _)
SplitFrom(s, i, cur) ==
  IF i > Len(s) THEN <<cur>>
  ELSE IF IsSpace(s[i])
       THEN IF i > 1 /\ IsSpace(s[i - 1])
            THEN SplitFrom(s, i + 1, cur)
            ELSE <<cur>> \o SplitFrom(s, i + 1, <<>>)
       ELSE SplitFrom(s, i + 1, Append(cur, s[i]))

SplitWhitespace(s) == SplitFrom(s, 1, <<>>)

\* Array.prototype.includes on a list of strings
ListIncludes(list, w) == \E i \in 1..Len(list) : list[i] = w

\* s.replace(/p1|p2|.../g, rep): one pass from the left; at each position the
\* first alternative that matches is replaced and the scan resumes after it
RECURSIVE ReplaceFrom(_, _, _, _)
ReplaceFrom(s, pats, rep, i) ==
  IF i > Len(s) THEN <<>>
  ELSE IF \E k \in 1..Len(pats) : MatchAt(s, pats[k], i)
       THEN LET k == CHOOSE k \in 1..Len(pats) :
                       /\ MatchAt(s, pats[k], i)
                       /\ \A j \in 1..(k - 1) : ~MatchAt(s, pats[j], i)
            IN rep \o ReplaceFrom(s, pats, rep, i + Len(pats[k]))
       ELSE <<s[i]>> \o ReplaceFrom(s, pats, rep, i + 1)

ReplaceAll(s, pats, rep) == ReplaceFrom(s, pats, rep, 1)

(***************************************************************************)
(* Keyword tables of the source.                                           *)
(***************************************************************************)

\* 아니 아니야 아니에요 취소 취소해줘 되돌려 되돌리기 잘못됐어 원래대로
CANCELLATION_KEYWORDS ==
  <<<<"'a", "ni">>,
    <<"'a", "ni", "'ya">>,
    <<"'a", "ni", "'e", "'yo">>,
    <<"chwi", "so">>,
    <<"chwi", "so", "hae", "jwo">>,
    <<"doe", "dol", "ryeo">>,
    <<"doe", "dol", "ri", "gi">>,
    <<"jal", "mos", "dwaess", "'eo">>,
    <<"'won", "rae", "dae", "ro">>>>

\* 네 예 맞아 맞습니다 좋아 확인 그래
confirmWords ==
  <<<<"ne">>,
    <<"'ye">>,
    <<"maj", "'a">>,
    <<"maj", "seub", "ni", "da">>,
    <<"joh", "'a">>,
    <<"hwag", "'in">>,
    <<"geu", "rae">>>>

\* 취소 아니야 도움 정지 멈춰
highPriorityPatterns ==
  <<<<"chwi", "so">>,
    <<"'a", "ni", "'ya">>,
    <<"do", "'um">>,
    <<"jeong", "ji">>,
    <<"meom", "chwo">>>>

recognitionFixes ==
  <<
    \* 로그 인 -> 로그인
    [pats |-> <<<<"ro", "geu", " ", "'in">>>>, rep |-> <<"ro", "geu", "'in">>],
    \* 클 릭 -> 클릭
    [pats |-> <<<<"keul", " ", "rig">>>>, rep |-> <<"keul", "rig">>],
    \* 검 색 -> 검색
    [pats |-> <<<<"geom", " ", "saeg">>>>, rep |-> <<"geom", "saeg">>],
    \* 취 소 -> 취소
    [pats |-> <<<<"chwi", " ", "so">>>>, rep |-> <<"chwi", "so">>],
    \* 확 인 -> 확인
    [pats |-> <<<<"hwag", " ", "'in">>>>, rep |-> <<"hwag", "'in">>],
    \* 들어가기 -> 로그인
    [pats |-> <<<<"deul", "'eo", "ga", "gi">>>>, rep |-> <<"ro", "geu", "'in">>],
    \* 찾아줘 -> 검색
    [pats |-> <<<<"chaj", "'a", "jwo">>>>, rep |-> <<"geom", "saeg">>],
    \* 눌러줘 -> 클릭
    [pats |-> <<<<"nul", "reo", "jwo">>>>, rep |-> <<"keul", "rig">>],
    \* 해주세요|해줘요 -> 해줘
    [pats |-> <<<<"hae", "ju", "se", "'yo">>, <<"hae", "jwo", "'yo">>>>, rep |-> <<"hae", "jwo">>],
    \* 주세요 -> 줘
    [pats |-> <<<<"ju", "se", "'yo">>>>, rep |-> <<"jwo">>]
  >>

\* the value of a field an object literal does not set
Undefined == <<"undefined">>

(***************************************************************************)
(* Pattern matcher.  The class defines matchBasicPatterns twice; the later *)
(* definition replaces the earlier one, so this is the one analyzeIntent   *)
(* calls.  It reads the transcript as given (not normalised).              *)
(***************************************************************************)

enhancedPatterns ==
  <<
  [keywords |->
     \* 로그인 들어가 접속 로그온 들어가기 들어가줘 입장
     <<<<"ro", "geu", "'in">>,
       <<"deul", "'eo", "ga">>,
       <<"jeob", "sog">>,
       <<"ro", "geu", "'on">>,
       <<"deul", "'eo", "ga", "gi">>,
       <<"deul", "'eo", "ga", "jwo">>,
       <<"'ib", "jang">>>>,
   intent |-> "login", confidence |-> 90],
  [keywords |->
     \* 검색 찾아 찾기 찾고 찾아줘 찾아봐 알아봐
     <<<<"geom", "saeg">>,
       <<"chaj", "'a">>,
       <<"chaj", "gi">>,
       <<"chaj", "go">>,
       <<"chaj", "'a", "jwo">>,
       <<"chaj", "'a", "bwa">>,
       <<"'al", "'a", "bwa">>>>,
   intent |-> "search", confidence |-> 90],
  [keywords |->
     \* 확인 클릭 선택 눌러 이걸로 좋아 누르기 선택해 이것
     <<<<"hwag", "'in">>,
       <<"keul", "rig">>,
       <<"seon", "taeg">>,
       <<"nul", "reo">>,
       <<"'i", "geol", "ro">>,
       <<"joh", "'a">>,
       <<"nu", "reu", "gi">>,
       <<"seon", "taeg", "hae">>,
       <<"'i", "geos">>>>,
   intent |-> "confirm", confidence |-> 85],
  [keywords |->
     \* 아니 취소 되돌려 그만 잘못 아니야 싫어 멈춰
     <<<<"'a", "ni">>,
       <<"chwi", "so">>,
       <<"doe", "dol", "ryeo">>,
       <<"geu", "man">>,
       <<"jal", "mos">>,
       <<"'a", "ni", "'ya">>,
       <<"silh", "'eo">>,
       <<"meom", "chwo">>>>,
   intent |-> "cancel", confidence |-> 95],
  [keywords |->
     \* 다음 이전 위로 아래로 넘어 앞으로 뒤로 올려 내려
     <<<<"da", "'eum">>,
       <<"'i", "jeon">>,
       <<"'wi", "ro">>,
       <<"'a", "rae", "ro">>,
       <<"neom", "'eo">>,
       <<"'ap", "'eu", "ro">>,
       <<"dwi", "ro">>,
       <<"'ol", "ryeo">>,
       <<"nae", "ryeo">>>>,
   intent |-> "navigate", confidence |-> 85],
  [keywords |->
     \* 도움 도와줘 뭐해 뭐하지 어떻게
     <<<<"do", "'um">>,
       <<"do", "'wa", "jwo">>,
       <<"mwo", "hae">>,
       <<"mwo", "ha", "ji">>,
       <<"'eo", "tteoh", "ge">>>>,
   intent |-> "help", confidence |-> 80]
  >>


\* (Array.prototype.find)
FindExact(keywords, transcript) ==
  LET words == SplitWhitespace(transcript)
      hits == {k \in 1..Len(keywords) : ListIncludes(words, keywords[k])}
  IN IF hits = {} THEN 0 ELSE CHOOSE k \in hits : \A j \in hits : k <= j

FindPartial(keywords, transcript) ==
  LET hits == {k \in 1..Len(keywords) : Includes(transcript, keywords[k])}
  IN IF hits = {} THEN 0 ELSE CHOOSE k \in hits : \A j \in hits : k <= j

RECURSIVE MatchFrom(_, _)
MatchFrom(transcript, p) ==
  IF p > Len(enhancedPatterns)
  THEN [intent |-> "unknown", confidence |-> 10, target |-> Undefined,
        source |-> "none", originalText |-> Undefined]
  ELSE LET pattern == enhancedPatterns[p]
       IN IF FindExact(pattern.keywords, transcript) # 0
          THEN [intent |-> pattern.intent, confidence |-> pattern.confidence,
                target |-> Undefined, source |-> "exact_pattern",
                originalText |-> transcript]
          ELSE IF FindPartial(pattern.keywords, transcript) # 0
          THEN [intent |-> pattern.intent,
                confidence |-> (pattern.confidence * 80) \div 100,
                target |-> Undefined, source |-> "partial_pattern",
                originalText |-> transcript]
          ELSE MatchFrom(transcript, p + 1)

matchBasicPatterns(transcript) == MatchFrom(transcript, 1)

(***************************************************************************)
(* Recovery of an intent from the context classifier's reasoning trace     *)
(* (extractIntentFromThinking).  The rules are tried in order; a rule      *)
(* fires when one of its words occurs in the lowercased trace or one of    *)
(* its transcript words occurs in the lowercased transcript.               *)
(***************************************************************************)

thinkingRules ==
  <<
    \* content: 음악 노래 재생 플레이 play; transcript: 음악 노래; target: 음악 재생
    [inContent |-> <<<<"'eum", "'ag">>, <<"no", "rae">>, <<"jae", "saeng">>, <<"peul", "re", "'i">>, <<"p", "l", "a", "y">>>>,
     inTranscript |-> <<<<"'eum", "'ag">>, <<"no", "rae">>>>,
     intent |-> "search", confidence |-> 80, target |-> <<"'eum", "'ag", " ", "jae", "saeng">>,
     source |-> "hyperclova_thinking", targetKind |-> "fixed"],
    \* content: 검색 찾 search; transcript: 검색 찾; target: (computed)
    [inContent |-> <<<<"geom", "saeg">>, <<"chaj">>, <<"s", "e", "a", "r", "c", "h">>>>,
     inTranscript |-> <<<<"geom", "saeg">>, <<"chaj">>>>,
     intent |-> "search", confidence |-> 80, target |-> <<>>,
     source |-> "hyperclova_thinking", targetKind |-> "query"],
    \* content: 맥날 맥도날드; transcript: 맥날 맥도날드; target: 맥도날드
    [inContent |-> <<<<"maeg", "nal">>, <<"maeg", "do", "nal", "deu">>>>,
     inTranscript |-> <<<<"maeg", "nal">>, <<"maeg", "do", "nal", "deu">>>>,
     intent |-> "search", confidence |-> 90, target |-> <<"maeg", "do", "nal", "deu">>,
     source |-> "hyperclova_cultural", targetKind |-> "fixed"],
    \* content: 스벅 스타벅스; transcript: 스벅 스타벅스; target: 스타벅스
    [inContent |-> <<<<"seu", "beog">>, <<"seu", "ta", "beog", "seu">>>>,
     inTranscript |-> <<<<"seu", "beog">>, <<"seu", "ta", "beog", "seu">>>>,
     intent |-> "search", confidence |-> 90, target |-> <<"seu", "ta", "beog", "seu">>,
     source |-> "hyperclova_cultural", targetKind |-> "fixed"],
    \* content: 카톡 카카오톡; transcript: 카톡 카카오톡; target: 카카오톡
    [inContent |-> <<<<"ka", "tog">>, <<"ka", "ka", "'o", "tog">>>>,
     inTranscript |-> <<<<"ka", "tog">>, <<"ka", "ka", "'o", "tog">>>>,
     intent |-> "navigate", confidence |-> 90, target |-> <<"ka", "ka", "'o", "tog">>,
     source |-> "hyperclova_cultural", targetKind |-> "fixed"],
    \* content: 클릭 누르 선택; transcript: 클릭 누르 선택; target: 버튼
    [inContent |-> <<<<"keul", "rig">>, <<"nu", "reu">>, <<"seon", "taeg">>>>,
     inTranscript |-> <<<<"keul", "rig">>, <<"nu", "reu">>, <<"seon", "taeg">>>>,
     intent |-> "click", confidence |-> 70, target |-> <<"beo", "teun">>,
     source |-> "hyperclova_thinking", targetKind |-> "element"],
    \* content: 스크롤 올려 내려; transcript: 올려 내려; target: (computed)
    [inContent |-> <<<<"seu", "keu", "rol">>, <<"'ol", "ryeo">>, <<"nae", "ryeo">>>>,
     inTranscript |-> <<<<"'ol", "ryeo">>, <<"nae", "ryeo">>>>,
     intent |-> "scroll", confidence |-> 80, target |-> <<>>,
     source |-> "hyperclova_thinking", targetKind |-> "direction"],
    \* content: 시간 time; transcript: 시간; target: 현재 시간
    [inContent |-> <<<<"si", "gan">>, <<"t", "i", "m", "e">>>>,
     inTranscript |-> <<<<"si", "gan">>>>,
     intent |-> "search", confidence |-> 80, target |-> <<"hyeon", "jae", " ", "si", "gan">>,
     source |-> "hyperclova_thinking", targetKind |-> "fixed"],
    \* content: 날씨 weather; transcript: 날씨; target: 날씨
    [inContent |-> <<<<"nal", "ssi">>, <<"w", "e", "a", "t", "h", "e", "r">>>>,
     inTranscript |-> <<<<"nal", "ssi">>>>,
     intent |-> "search", confidence |-> 80, target |-> <<"nal", "ssi">>,
     source |-> "hyperclova_thinking", targetKind |-> "fixed"]
  >>

\* 검색 ; 하 해 ; 찾 ; 아 으 ; 올려
KwSearch == <<"geom", "saeg">>
KwSearchSuffix == {"ha", "hae"}
KwFind == <<"chaj">>
KwFindSuffix == {"'a", "'eu"}
KwSearchLatin == <<"s", "e", "a", "r", "c", "h">>
KwScrollUp == <<"'ol", "ryeo">>

\* the texts of the page's button, a and [role="button"] elements, in
\* document order (document.querySelectorAll): 확인
ScreenButtons == <<<<"hwag", "'in">>>>

\* "\s*(.+)" applied to what follows a matched prefix: the capture, or <<>>
\* when nothing is left to capture
CaptureRest(rest) ==
  IF rest = <<>> THEN <<>>
  ELSE IF TrimStart(rest) # <<>> THEN TrimStart(rest)
  ELSE <<rest[Len(rest)]>>

\* the capture of /검색[하해]?\s*(.+)|찾[아으]\s*(.+)|search\s*(.+)/ when the
\* match starts at position i, or <<>> when it does not match there
SearchMatchAt(s, i) ==
  LET after(n) == SubSeq(s, i + n, Len(s))
      alt1 ==
        IF ~MatchAt(s, KwSearch, i) THEN <<>>
        ELSE LET rest == after(Len(KwSearch))
             IN IF rest # <<>> /\ Head(rest) \in KwSearchSuffix /\ Tail(rest) # <<>>
                THEN CaptureRest(Tail(rest))
                ELSE CaptureRest(rest)
      alt2 ==
        IF /\ MatchAt(s, KwFind, i)
           /\ i + Len(KwFind) <= Len(s)
           /\ s[i + Len(KwFind)] \in KwFindSuffix
        THEN CaptureRest(after(Len(KwFind) + 1))
        ELSE <<>>
      alt3 ==
        IF MatchAt(s, KwSearchLatin, i)
        THEN CaptureRest(after(Len(KwSearchLatin)))
        ELSE <<>>
  IN IF alt1 # <<>> THEN alt1 ELSE IF alt2 # <<>> THEN alt2 ELSE alt3

\* const query = searchMatch ? (searchMatch[1] || ... || '').trim() : '검색'
SearchQuery(originalTranscript) ==
  LET starts == {i \in 1..Len(originalTranscript) :
                   SearchMatchAt(originalTranscript, i) # <<>>}
  IN IF starts = {} THEN KwSearch
     ELSE Trim(SearchMatchAt(originalTranscript,
                             CHOOSE i \in starts : \A j \in starts : i <= j))

\* the first screen element whose (trimmed, lowercased) text occurs in the
\* transcript or in the trace; 0 when there is none
ClickElement(originalTranscript, content) ==
  LET hits == {e \in 1..Len(ScreenButtons) :
                 LET text == Trim(ScreenButtons[e])
                 IN /\ text # <<>>
                    /\ \/ Includes(originalTranscript, ToLowerCase(text))
                       \/ Includes(content, ToLowerCase(text))}
  IN IF hits = {} THEN 0 ELSE CHOOSE e \in hits : \A j \in hits : e <= j

RuleFires(rule, originalTranscript, content) ==
  \/ IncludesSome(content, rule.inContent)
  \/ IncludesSome(originalTranscript, rule.inTranscript)

RuleResult(rule, transcript, originalTranscript, content) ==
  LET base == [intent |-> rule.intent, confidence |-> rule.confidence,
               target |-> rule.target, source |-> rule.source,
               originalText |-> Undefined]
  IN CASE rule.targetKind = "fixed" -> base
       [] rule.targetKind = "query" ->
            [base EXCEPT !.target = SearchQuery(originalTranscript)]
       [] rule.targetKind = "direction" ->
            [base EXCEPT !.target =
               IF Includes(originalTranscript, KwScrollUp)
               THEN <<"u", "p">> ELSE <<"d", "o", "w", "n">>]
       [] rule.targetKind = "element" ->
            LET e == ClickElement(originalTranscript, content)
            IN IF e # 0
               THEN [base EXCEPT !.confidence = 80,
                                 !.target = Trim(ScreenButtons[e])]
               ELSE base

RECURSIVE ExtractFrom(_, _, _, _)
ExtractFrom(r, transcript, originalTranscript, content) ==
  IF r > Len(thinkingRules)
  THEN [intent |-> "search", confidence |-> 60, target |-> transcript,
        source |-> "hyperclova_fallback", originalText |-> Undefined]
  ELSE IF RuleFires(thinkingRules[r], originalTranscript, content)
       THEN RuleResult(thinkingRules[r], transcript, originalTranscript, content)
       ELSE ExtractFrom(r + 1, transcript, originalTranscript, content)

\* a value toLowerCase cannot be called on (undefined, an object)
NotAString == <<"[object]">>

extractIntentFromThinking(transcript, thinkingContent) ==
  IF thinkingContent = NotAString
  THEN [intent |-> "search", confidence |-> 50, target |-> transcript,
        source |-> "error_fallback", originalText |-> Undefined]
  ELSE ExtractFrom(1, transcript, ToLowerCase(transcript),
                   ToLowerCase(thinkingContent))


(***************************************************************************)
(* Program constants.                                                      *)
(***************************************************************************)

\* openaiResult.confidence > 0.5
FastAcceptAbove == 50
\* hyperclovaResult.confidence >= 0.6
ContextAcceptFrom == 60
\* setTimeout(() => reject(new Error('OpenAI timeout')), 2000)
OpenAITimeoutMs == 2000
\* intent.confidence > 0.4
ExecuteAbove == 40
\* bestConfidence > 0.5
ProcessAbove == 50
\* bestConfidence > 0.3
ConfirmAbove == 30
\* (now - this.lastCommandTime) < 400
DuplicateWindowMs == 400
\* enhancedTranscript.trim().length < 2
MinTranscriptLength == 2
\* this.actionHistory.length > 10
MaxHistory == 10

\* timeSinceAISpeech > 5000
EchoGuardMs == 5000
\* Math.min(2, this.aiSpeechKeywords.length)
EchoMatches == 2
\* word.length >= 2
MinKeywordLength == 2
\* .slice(0, 3)
MaxKeywords == 3

\* KoreanCancellationManager.maxHistorySize
maxHistorySize == 10

\* fallbackToSpeechSynthesis: the delay of safetyTimeout
SafetyTimeoutMs == 10000

\* isDuplicateCommand: (now - this.lastCommandTime) < 1500
CommandWindowMs == 1500
\* handleLowConfidenceResult: this.recognitionAttempts < 3, and the delay
\* of its timer
MaxAttempts == 3
LowConfidenceRetryMs == 1000
\* clearCommandHistoryAfterTTS: the delay of its timer
ClearCommandMs == 3000
(***************************************************************************)
(* Recognition-result handling: the pure parts.                            *)
(***************************************************************************)

RECURSIVE ApplyFixes(_, _)
ApplyFixes(s, k) ==
  IF k > Len(recognitionFixes) THEN s
  ELSE ApplyFixes(ReplaceAll(s, recognitionFixes[k].pats, recognitionFixes[k].rep),
                  k + 1)

enhanceKoreanRecognition(transcript) == Trim(ApplyFixes(transcript, 1))

isConfirmationResponse(normalized) == IncludesSome(normalized, confirmWords)

isCancellation(transcript) == IncludesSome(transcript, CANCELLATION_KEYWORDS)

isHighPriorityCommand(transcript) == IncludesSome(transcript, highPriorityPatterns)

\* the loop over the latest result's alternatives: the best one so far starts
\* as ('', 0) and is replaced by an alternative of strictly higher confidence
RECURSIVE BestFrom(_, _, _)
BestFrom(alternatives, j, best) ==
  IF j > Len(alternatives) THEN best
  ELSE BestFrom(alternatives, j + 1,
                IF alternatives[j].confidence > best.confidence
                THEN alternatives[j] ELSE best)

BestAlternative(alternatives) ==
  BestFrom(alternatives, 1, [transcript |-> <<>>, confidence |-> 0])

\* transcript.toLowerCase().trim()
Normalize(transcript) == Trim(ToLowerCase(transcript))

\* Math.min
Min(a, b) == IF a < b THEN a ELSE b

(***************************************************************************)
(* Speech output and the echo guard: the pure parts.                       *)
(***************************************************************************)

\* s.replace(/c{2,}/g, c); with c the space it is s.replace(/\s+/g, ' ')
RECURSIVE Squeeze(_, _)
Squeeze(s, c) ==
  IF Len(s) < 2 THEN s
  ELSE IF s[1] = c /\ s[2] = c THEN Squeeze(Tail(s), c)
  ELSE <<s[1]>> \o Squeeze(Tail(s), c)

\* s.replace(/ending\.+$/g, ending): the dots that end s after ending go
StripDotsAfter(s, ending) ==
  LET RECURSIVE Undotted(_)
      Undotted(t) == IF t # <<>> /\ t[Len(t)] = "."
                     THEN Undotted(SubSeq(t, 1, Len(t) - 1)) ELSE t
      t == Undotted(s)
  IN IF t # s /\ Len(t) >= Len(ending) /\ MatchAt(t, ending, Len(t) - Len(ending) + 1)
     THEN t ELSE s

\* the characters \w matches: [A-Za-z0-9_].  No Hangul syllable is one
WordChars ==
  {"a", "b", "c", "d", "e", "f", "g", "h", "i", "j", "k", "l", "m", "n", "o",
   "p", "q", "r", "s", "t", "u", "v", "w", "x", "y", "z",
   "A", "B", "C", "D", "E", "F", "G", "H", "I", "J", "K", "L", "M", "N", "O",
   "P", "Q", "R", "S", "T", "U", "V", "W", "X", "Y", "Z",
   "0", "1", "2", "3", "4", "5", "6", "7", "8", "9", "_"}

\* \b before position i of s: of the characters on its two sides exactly
\* one is a word character, the ends of s counting as none
WordBoundary(s, i) ==
  (i > 1 /\ s[i - 1] \in WordChars) # (i <= Len(s) /\ s[i] \in WordChars)

\* s.replace(/\bword\b/g, rep), from position i on
RECURSIVE ReplaceWordFrom(_, _, _, _)
ReplaceWordFrom(s, word, rep, i) ==
  IF i > Len(s) THEN <<>>
  ELSE IF /\ MatchAt(s, word, i)
          /\ WordBoundary(s, i)
          /\ WordBoundary(s, i + Len(word))
       THEN rep \o ReplaceWordFrom(s, word, rep, i + Len(word))
       ELSE <<s[i]>> \o ReplaceWordFrom(s, word, rep, i + 1)

\* enhanceKoreanText: 안녕, 고마워 and 괜찮아 as words become 안녕하세요,
\* 감사합니다 and 괜찮습니다; the dots that end the text after 습니다, 입니다
\* or ㅂ니다 go (the jamo ㅂ is the character "%b"); runs of . ! ? and of
\* white space become one; the text is trimmed
enhanceKoreanText(text) ==
  LET p == ReplaceWordFrom(text, <<"'an", "nyeong">>,
                           <<"'an", "nyeong", "ha", "se", "'yo">>, 1)
      q == ReplaceWordFrom(p, <<"go", "ma", "'wo">>,
                           <<"gam", "sa", "hab", "ni", "da">>, 1)
      r == ReplaceWordFrom(q, <<"gwaen", "chanh", "'a">>,
                           <<"gwaen", "chanh", "seub", "ni", "da">>, 1)
      a == StripDotsAfter(r, <<"seub", "ni", "da">>)
      b == StripDotsAfter(a, <<"'ib", "ni", "da">>)
      b2 == StripDotsAfter(b, <<"%b", "ni", "da">>)
      c == Squeeze(Squeeze(Squeeze(b2, "."), "!"), "?")
  IN Trim(Squeeze(c, " "))

\* 입니다 습니다 해요 이에요 예요 에서 에게 으로 를 을 가 이 는 은
stopWords ==
  <<<<"'ib", "ni", "da">>, <<"seub", "ni", "da">>, <<"hae", "'yo">>,
    <<"'i", "'e", "'yo">>, <<"'ye", "'yo">>, <<"'e", "seo">>, <<"'e", "ge">>,
    <<"'eu", "ro">>, <<"reul">>, <<"'eul">>, <<"ga">>, <<"'i">>, <<"neun">>,
    <<"'eun">>>>

\* extractKeywords: the first MaxKeywords words of the text that have
\* MinKeywordLength characters and are no stop word.  (cleanText has single
\* spaces and none at its ends, so split(' ') is split(/\s+/).)
extractKeywords(text) ==
  LET cleanText ==
        Trim(Squeeze(ReplaceAll(ToLowerCase(text),
                                <<<<".">>, <<",">>, <<"!">>, <<"?">>, <<"~">>>>,
                                <<" ">>), " "))
      Keep(word) == Len(word) >= MinKeywordLength /\ ~ListIncludes(stopWords, word)
      keywords == SelectSeq(SplitWhitespace(cleanText), Keep)
  IN SubSeq(keywords, 1, Min(Len(keywords), MaxKeywords))

\* splitIntoNaturalSentences: text.split(/[.!?]/), trimmed, the empty ones
\* dropped
splitIntoNaturalSentences(text) ==
  LET RECURSIVE Pieces(_, _)
      Pieces(i, cur) ==
        IF i > Len(text) THEN <<cur>>
        ELSE IF text[i] \in {".", "!", "?"}
        THEN <<cur>> \o Pieces(i + 1, <<>>)
        ELSE Pieces(i + 1, Append(cur, text[i]))
      NotEmpty(s) == Len(s) > 0
      trimmed == [k \in 1..Len(Pieces(1, <<>>)) |-> Trim(Pieces(1, <<>>)[k])]
  IN SelectSeq(trimmed, NotEmpty)

\* the guard once markAISpeechActive(text) has run
markAISpeechActive(text) ==
  [active |-> TRUE, keywords |-> extractKeywords(text), age |-> 0]

\* markAISpeechComplete
markAISpeechComplete(guard) == [guard EXCEPT !.active = FALSE, !.keywords = <<>>]

\* isAISpeechEcho asking for EchoMatches keywords of every guard
isAISpeechEchoBothNeeded(guard, transcript) ==
  LET transcriptLower == ToLowerCase(transcript)
      matchedKeywords ==
        {k \in 1..Len(guard.keywords) : Includes(transcriptLower, guard.keywords[k])}
  IN IF ~guard.active \/ Len(guard.keywords) = 0
     THEN [isEcho |-> FALSE, guard |-> guard]
     ELSE IF guard.age > EchoGuardMs
     THEN [isEcho |-> FALSE, guard |-> markAISpeechComplete(guard)]
     ELSE [isEcho |-> Cardinality(matchedKeywords) >= EchoMatches,
           guard |-> guard]

\* isAISpeechEcho without its time window
isAISpeechEchoForever(guard, transcript) ==
  LET transcriptLower == ToLowerCase(transcript)
      matchedKeywords ==
        {k \in 1..Len(guard.keywords) : Includes(transcriptLower, guard.keywords[k])}
  IN IF ~guard.active \/ Len(guard.keywords) = 0
     THEN [isEcho |-> FALSE, guard |-> guard]
     ELSE [isEcho |->
             Cardinality(matchedKeywords)
               >= Min(EchoMatches, Len(guard.keywords)),
           guard |-> guard]

\* isAISpeechEcho(transcript) on a guard whose activation is age ms old: its
\* verdict, and the guard it leaves (markAISpeechComplete past the window)
isAISpeechEcho(guard, transcript) ==
  LET transcriptLower == ToLowerCase(transcript)
      matchedKeywords ==
        {k \in 1..Len(guard.keywords) : Includes(transcriptLower, guard.keywords[k])}
  IN IF ~guard.active \/ Len(guard.keywords) = 0
     THEN [isEcho |-> FALSE, guard |-> guard]
     ELSE IF guard.age > EchoGuardMs
     THEN [isEcho |-> FALSE, guard |-> markAISpeechComplete(guard)]
     ELSE [isEcho |->
             Cardinality(matchedKeywords)
               >= Min(EchoMatches, Len(guard.keywords)),
           guard |-> guard]
(***************************************************************************)
(* Bounds of the model and the inputs it draws.                            *)
(***************************************************************************)

\* processCommand invocations that may be in flight at the same time
MaxCalls == 2
\* milliseconds the clock advances in one step
TickMs == 1000

\* milliseconds of a step shorter than the duplicate window
WindowTickMs == 300

\* initialize() calls that may wait for scanPage at the same time
MaxInitializeCalls == 2

\* milliseconds of a step of the speech output's clock
SpeechTickMs == 5000

\* speak calls that reach the synthesizer
MaxSpeakCalls == 2

\* timers of startListening's polling that may be pending at the same time
MaxPolls == 1

\* processCommand calls of the router that may be suspended at the same time
MaxPending == 2

\* sentences that a call of speakSentences is given at most
MaxSentences == 2

\* timers of restartContinuousListening of one kind that may be pending at
\* the same time
MaxRestarts == 1

\* the getUserMedia calls, the stop events and the transcription requests
\* of the Whisper recorders that are pending at a time
MaxRecordings == 2

\* commands the router's list may hold
MaxCommands == 5

\* entries the manager's history may hold
MaxRouterRecorded == 2

\* utterances the synthesizer may still hold after their safety timeout
MaxStale == 2

\* restarts of one kind that may be left on timers at the same time
MaxRetries == 2

\* timers of handleLowConfidenceResult and clearCommandHistoryAfterTTS that
\* may be pending at the same time
MaxTimers == 2

\* actions the page lets the session record
MaxRecorded == 1

\* entries of actionHistory up to which executeCommand is called
MaxExecuted == 1

Slots == 1..MaxCalls

U_Yes == <<"ne">>                   \* 네
U_Right == <<"maj", "'a">>          \* 맞아
U_Cancel == <<"chwi", " ", "so">>   \* 취 소 (recognised with a gap)
U_OK == <<"O", "K">>                \* OK
U_ok == <<"o", "k">>                \* ok
U_No == <<"'a", "ni">>              \* 아니
U_Both == <<"hwag", "'in", " ", "chwi", "so">>   \* 확인 취소
U_Down == <<"'a", "rae", "ro">>     \* 아래로

\* 장바구니를 열었습니다, and 장바구니 열었: what the microphone picks up of it
CartOpened ==
  <<"jang", "ba", "gu", "ni", "reul", " ", "'yeol", "'eoss", "seub", "ni", "da">>

CartHeard == <<"jang", "ba", "gu", "ni", " ", "'yeol", "'eoss">>

\* 장바구니를, one of the two words of 장바구니를 열었습니다; 들리지
\* 다시, two of the first three words of 잘 들리지 않습니다. 다시 말씀해
\* 주세요 that are long enough; 다시
U_Cart == <<"jang", "ba", "gu", "ni", "reul">>

U_HearAgain == <<"deul", "ri", "ji", " ", "da", "si">>

U_Again == <<"da", "si">>

\* what the recogniser may deliver as an alternative's transcript
\* a refusal followed by a command, and two abbreviations: 아니요 다음,
\* 아아 주세요, 맥날 갈래
Utterances ==
  {U_Yes, U_Right, U_Cancel, U_OK, U_ok, U_No, U_Both, U_Down, CartOpened,
   CartHeard, <<"'eo">>,
   <<"'a", "ni", "'yo", " ", "da", "'eum">>,
   <<"'a", "'a", " ", "ju", "se", "'yo">>,
   <<"maeg", "nal", " ", "gal", "rae">>}

\* commands handed to executeCommand: 다음, 메뉴, 확인 클릭, 홈 눌러 and OK
InstanceCommands ==
  {<<"da", "'eum">>, <<"me", "nyu">>, <<"hwag", "'in", " ", "keul", "rig">>,
   <<"hom", " ", "nul", "reo">>, U_OK}

\* what is said in a conversation: a command and two affirmative replies
Spoken == {U_Yes, U_Right, U_OK}

\* the recogniser's confidence, around the handler's two thresholds
RecognizerConfidences == {30, 50, 51}

Alternative(u, c) == [transcript |-> u, confidence |-> c]

\* the alternatives of a recognition result: one alternative, or a weaker
\* one followed by a stronger one
Alternatives ==
  {<<Alternative(u, c)>> : u \in Spoken, c \in RecognizerConfidences}
    \cup {<<Alternative(U_Yes, 30), Alternative(U_OK, 51)>>}

\* the recognition results of a conversation: the final results, one
\* interim result, and the one-syllable sound 어
SpeechResults ==
  {[alternatives |-> a, isFinal |-> TRUE] : a \in Alternatives}
    \cup {[alternatives |-> <<Alternative(U_OK, 51)>>, isFinal |-> FALSE],
          [alternatives |-> <<Alternative(<<"'eo">>, 51)>>, isFinal |-> TRUE]}

\* final results the recogniser is sure of: one command in two casings
Repeated ==
  {[alternatives |-> <<Alternative(u, 51)>>, isFinal |-> TRUE] :
     u \in {U_OK, U_ok}}

\* the same, and a command the pattern matcher knows
Commands ==
  Repeated \cup {[alternatives |-> <<Alternative(U_Cancel, 51)>>,
                  isFinal |-> TRUE]}

\* a command recognised with mid confidence and the replies that hold a
\* cancellation word, with the confidence each is recognised with
ConfirmReplies ==
  {[alternatives |-> <<Alternative(r[1], r[2])>>, isFinal |-> TRUE] :
     r \in {<<U_OK, 50>>, <<U_Cancel, 50>>, <<U_Cancel, 30>>, <<U_No, 50>>,
            <<U_Both, 51>>}}

\* commands the recogniser is sure of: a click, a scroll and a
\* cancellation, a refusal followed by a command, and two abbreviations
UndoCommands ==
  {[alternatives |-> <<Alternative(u, 51)>>, isFinal |-> TRUE] :
     u \in {U_OK, U_Down, U_Cancel,
            <<"'a", "ni", "'yo", " ", "da", "'eum">>,
            <<"'a", "'a", " ", "ju", "se", "'yo">>,
            <<"maeg", "nal", " ", "gal", "rae">>}}

\* the JSON objects a remote model may answer with (intent, confidence,
\* target), around the acceptance thresholds and outside the vocabulary
Answer(i, c) == [intent |-> i, confidence |-> c, target |-> ScreenButtons[1]]

OpenAIAnswers == {Answer("click", 50), Answer("click", 51), Answer("dance", 150)}

HyperAnswers == {Answer("search", 59), Answer("search", 60)}

\* reasoning traces: 카톡 (a topic keyword) and one without any keyword
ThinkingTexts == {<<"ka", "tog">>, <<"h", "m">>}

(***************************************************************************)
(* The text functions, tabulated over the transcripts the model draws.     *)
(***************************************************************************)

\* f(x), looked up in table where table has it
Memo(table, x, computed) ==
  IF x \in DOMAIN table THEN table[x] ELSE computed

Transcripts == Utterances \cup {enhanceKoreanRecognition(u) : u \in Utterances}

\* the same with what is heard of the assistant's own speech alone, which
\* no classifier is given
Echoes == {U_Cart, U_HearAgain}

HeardTranscripts == Transcripts \cup Echoes \cup {enhanceKoreanRecognition(u) : u \in Echoes}

enhancedOf == [u \in Utterances \cup Echoes |-> enhanceKoreanRecognition(u)]

normalizedOf == [t \in HeardTranscripts |-> Normalize(t)]

trimmedOf == [t \in HeardTranscripts |-> Trim(t)]

isHighPriorityOf == [t \in HeardTranscripts |-> isHighPriorityCommand(t)]

isConfirmationOf ==
  [n \in {Normalize(t) : t \in HeardTranscripts} |-> isConfirmationResponse(n)]

isCancellationOf ==
  [n \in {Normalize(t) : t \in HeardTranscripts} |-> isCancellation(n)]

basicResultOf == [t \in Transcripts |-> matchBasicPatterns(t)]

extractIntentFromPair(pair) == extractIntentFromThinking(pair[1], pair[2])

thinkingResultOf ==
  [pair \in Transcripts \X (ThinkingTexts \cup {<<>>, NotAString}) |->
     extractIntentFromPair(pair)]

(***************************************************************************)
(* Remote responses.  A response is what fetch and response.json() give:   *)
(* status is "network_error" (fetch or json() rejects), "http_error"       *)
(* (response.ok false), "bad_status" (status.code is not 20000 or there is *)
(* no message), or "ok".  The content of an "ok" response is "json" (text  *)
(* that JSON.parse turns into the object value), "text" (text JSON.parse   *)
(* rejects; the empty text included) or "object" (not a string).           *)
(***************************************************************************)

NoAnswer == [intent |-> "", confidence |-> 0, target |-> Undefined]

Failure(status) ==
  [status |-> status, type |-> "text", value |-> NoAnswer, text |-> <<>>,
   thinkingContent |-> <<>>]

JsonContent(a) ==
  [status |-> "ok", type |-> "json", value |-> a, text |-> <<>>,
   thinkingContent |-> <<>>]

TextContent(text, thinking) ==
  [status |-> "ok", type |-> "text", value |-> NoAnswer, text |-> text,
   thinkingContent |-> thinking]

ObjectContent ==
  [status |-> "ok", type |-> "object", value |-> NoAnswer, text |-> <<>>,
   thinkingContent |-> <<>>]

OpenAIResponses ==
  {Failure("network_error"), Failure("http_error"), TextContent(<<"h", "m">>, <<>>)}
    \cup {JsonContent(a) : a \in OpenAIAnswers}

HyperResponses ==
  {Failure("network_error"), Failure("http_error"), Failure("bad_status"),
   TextContent(<<>>, <<>>), TextContent(<<"h", "m">>, <<>>), ObjectContent}
    \cup {JsonContent(a) : a \in HyperAnswers}
    \cup {TextContent(<<>>, t) : t \in ThinkingTexts}

\* one failure and one accepted answer of each classifier
FewOpenAIResponses == {Failure("http_error"), JsonContent(Answer("click", 51))}

FewHyperResponses == {Failure("http_error"), JsonContent(Answer("search", 60))}

\* a promise's settlement: fulfilled with an intent result, or rejected
NoResult ==
  [intent |-> "", confidence |-> 0, target |-> Undefined, source |-> "",
   originalText |-> Undefined]

Fulfilled(result) == [kind |-> "result", value |-> result]

Rejected == [kind |-> "throw", value |-> NoResult]

\* callOpenAI, given the response its fetch receives
callOpenAI(transcript, response) ==
  IF response.status = "ok" /\ response.type = "json"
  THEN Fulfilled([intent |-> response.value.intent,
                  confidence |-> response.value.confidence,
                  target |-> response.value.target,
                  source |-> "openai", originalText |-> transcript])
  ELSE Rejected

\* the same, failing when the content is not JSON
callHyperCLOVAStrict(transcript, response) ==
  IF response.status = "ok" /\ response.type = "json"
  THEN Fulfilled([intent |-> response.value.intent,
                  confidence |-> response.value.confidence,
                  target |-> response.value.target,
                  source |-> "hyperclova-context", originalText |-> transcript])
  ELSE Rejected

\* callHyperCLOVAForContext, given the response its fetch receives
callHyperCLOVAForContext(transcript, response) ==
  IF response.status # "ok" THEN Rejected
  ELSE IF response.type = "json"
  THEN Fulfilled([intent |-> response.value.intent,
                  confidence |-> response.value.confidence,
                  target |-> response.value.target,
                  source |-> "hyperclova-context", originalText |-> transcript])
  ELSE LET pair == <<transcript,
                     IF response.thinkingContent # <<>>
                     THEN response.thinkingContent
                     ELSE IF response.type = "object" THEN NotAString
                     ELSE response.text>>
       IN Fulfilled(Memo(thinkingResultOf, pair, extractIntentFromPair(pair)))


(***************************************************************************)
(* State.                                                                  *)
(***************************************************************************)

VARIABLES
  config,                  \* this.config: the credentials and useAIIntent
  intentCache,             \* this.intentCache: normalised transcript -> result
  waitingForConfirmation,  \* this.waitingForConfirmation (NoPending for null)
  lastCommand,             \* this.lastCommand
  lastCommandAge,          \* Date.now() - this.lastCommandTime, capped
  actionHistory,           \* this.actionHistory
  calls,                   \* the processCommand invocations in flight
  lateOpenAI,              \* the callOpenAI promises that lost their race:
                           \* a bag of their transcripts
  delivered,               \* per normalised transcript, the results returned
  aiSpeech,                \* the echo guard: aiSpeechActive, aiSpeechKeywords
                           \* and age, Date.now() - this.lastAISpeechTime
  tts,                     \* isSpeaking, and the utterances still to be played
  assistant,               \* AIAssistant: isInitialized, the initialize()
                           \* calls waiting for scanPage, how often the
                           \* configured custom commands were registered,
                           \* and its VoiceEngine: isListening and the
                           \* recognizer behind recognitionRef
  synth,                   \* the browser's speechSynthesis, currentUtterance
                           \* and the timers and loops of the speech output
  router,                  \* CommandRouter: its cancellationManager's
                           \* actionHistory, its commands, and the
                           \* processCommand calls suspended at an await
  recognition,             \* isListening, recognitionActive,
                           \* recognitionAttempts, the browser's recogniser,
                           \* the restarts left on timers, and the timers
                           \* of handleLowConfidenceResult ("low") and
                           \* clearCommandHistoryAfterTTS ("clear") with the
                           \* milliseconds each has left, oldest first,
                           \* the settings adjustRecognitionSettings
                           \* changes, and the Whisper recorder:
                           \* this.mediaRecorder (none, recording or
                           \* inactive), the getUserMedia calls not yet
                           \* answered, the stop events due and the
                           \* transcription requests in flight
  ev                       \* what the last handler did

vars ==
  <<config, intentCache, waitingForConfirmation, lastCommand, lastCommandAge,
    actionHistory, calls, lateOpenAI, delivered, aiSpeech, tts, router,
    recognition, assistant, synth, ev>>

\* speech output and its echo guard
speechVars == <<aiSpeech, tts>>

\* the guard of the constructor: inactive, lastAISpeechTime = 0 long ago
NoGuard == [active |-> FALSE, keywords |-> <<>>, age |-> EchoGuardMs + TickMs]

\* nothing is being played; kind tells how the text being played was
\* handed to the synthesizer: as a single utterance, whose onend and
\* onerror are those of fallbackToSpeechSynthesis, or sentence by sentence
\* by speakSentencesSmooth, with left sentences still to end; gap tells
\* that a sentence has ended and the timer of 1686 is pending, the next
\* sentence not yet handed over; playedFor is the time since a single
\* utterance was handed over, the age of its safety timeout; stale counts
\* the single utterances whose safety timeout has fired and which the
\* synthesizer still holds, ahead of the text being played
Silent ==
  [isSpeaking |-> FALSE, kind |-> "none", left |-> 0, gap |-> FALSE,
   playedFor |-> 0, stale |-> 0]

\* speechSynthesis has nothing to say and no timer is pending.  next
\* numbers the speak calls that reached the synthesizer; currentUtterance
\* is the call whose utterance this.currentUtterance holds (0 for null);
\* queue holds the utterances handed to speechSynthesis.speak, the one being
\* spoken first, each with the call it belongs to and whether it is the
\* single utterance of fallbackToSpeechSynthesis or a sentence of
\* speakSentencesSmooth; cancelled holds the utterances that
\* speechSynthesis.cancel removed and whose error event is still to be
\* dispatched; safety holds the safety timeouts with the milliseconds left;
\* loops holds the speakSentencesSmooth calls that have not returned, with
\* the sentences left (the one being spoken included) and whether the loop
\* is in the gap after a sentence; sentences holds the speakSentences and
\* speakSentencesWithRestart calls that have not returned, with the method,
\* its wasListening, the sentences left and whether the call is in the
\* pause after a sentence; speakingFor is the time since isSpeaking
\* was last set and polls the pending timers of startListening (564)
NoSynth ==
  [next |-> 1, currentUtterance |-> 0, queue |-> <<>>, cancelled |-> {},
   safety |-> {}, loops |-> {}, sentences |-> {}, speakingFor |-> 0,
   polls |-> 0]

\* no restart is left on a timer: the pending timers of handleSpeechError
\* (network: 1468, other: 1485), of handleSpeechEnd (end: 1507) and of
\* restartContinuousListening (restart: 1758, again: 1766), counted
NoTimers == [network |-> 0, other |-> 0, end |-> 0, restart |-> 0, again |-> 0]

\* the recogniser's settings of the constructor: recognition.lang,
\* recognition.maxAlternatives and noiseLevel
DefaultSettings == [lang |-> "ko-KR", maxAlternatives |-> 3, noiseLevel |-> "0"]

\* initializeDefaultCommands: 다음 페이지 넘어가기 다음; 이전 페이지
\* 뒤로가기 이전; 위로 맨 위로 상단으로; 아래로 맨 아래로 하단으로
DefaultCommands ==
  <<[keywords |-> <<<<"da", "'eum", " ", "pe", "'i", "ji">>,
                    <<"neom", "'eo", "ga", "gi">>, <<"da", "'eum">>>>,
     description |-> "da'eum pe'ijiro 'idong", effect |-> "next"],
    [keywords |-> <<<<"'i", "jeon", " ", "pe", "'i", "ji">>,
                    <<"dwi", "ro", "ga", "gi">>, <<"'i", "jeon">>>>,
     description |-> "'ijeon pe'ijiro 'idong", effect |-> "prev"],
    [keywords |-> <<<<"'wi", "ro">>, <<"maen", " ", "'wi", "ro">>,
                    <<"sang", "dan", "'eu", "ro">>>>,
     description |-> "pe'iji sangdan'euro seukeurol", effect |-> "scroll"],
    [keywords |-> <<<<"'a", "rae", "ro">>, <<"maen", " ", "'a", "rae", "ro">>,
                    <<"ha", "dan", "'eu", "ro">>>>,
     description |-> "pe'iji hadan'euro seukeurol", effect |-> "scroll"]>>

\* a command that a page registers: 홈, described as navigate
HomeCommand ==
  [keywords |-> <<<<"hom">>>>, description |-> "navigate", effect |-> "custom"]

\* a command whose keyword the page wrote in capitals: OK, described as
\* click
OKCommand ==
  [keywords |-> <<U_OK>>, description |-> "click", effect |-> "custom"]

\* the router of the constructor
NoRouter == [history |-> <<>>, commands |-> DefaultCommands, pending |-> <<>>]

\* null
NoPending == [originalCommand |-> Undefined]

Pending(transcript) == [originalCommand |-> transcript]

\* a slot no invocation occupies
IdleCall == [pc |-> "idle", transcript |-> <<>>, age |-> 0,
             openaiCalls |-> 0, hyperclovaCalls |-> 0]

\* ev of a step in which no handler ran.  op is the handler; gate and
\* branch are the paths taken through handleEnhancedSpeechResult and
\* processCommand; heard is the enhanced transcript, confidence the
\* recogniser's confidence in it and pending the
\* confirmation that was waiting when the handler began; transcript is the
\* argument of the analyzeIntent call the step belongs to and hit whether
\* that call found it in the cache; remote, answer and
\* waited describe the classifier call that settled (how, with what, after
\* how long) and response is what the context classifier's fetch received;
\* fetched is the classifier call the step starts; outcome and
\* result are the settlement of analyzeIntent; executed and threw tell
\* whether executeIntentAction ran and whether it threw, effect what it did
\* to the page; said is the text the step hands to speak first (lines 153,
\* 174, 1414, and those of executeIntentAction and its handlers); before is
\* the action
\* history that a call of recordAction or handleCancellation from outside
\* a conversation found; depth is how many times processCommand has called
\* itself; utterance is the speak call that the utterance, timer or loop of
\* a step of the speech output belongs to
NoEvent ==
  [op |-> "none", gate |-> "-", branch |-> "-", heard |-> Undefined,
   confidence |-> 0,
   pending |-> NoPending, transcript |-> Undefined, hit |-> FALSE,
   remote |-> "-", response |-> Failure("-"), answer |-> NoResult,
   waited |-> 0,
   fetched |-> {}, outcome |-> "none", result |-> NoResult,
   executed |-> FALSE, threw |-> FALSE, effect |-> "none", said |-> Undefined,
   before |-> <<>>, depth |-> 0, utterance |-> 0]

Configs ==
  [openaiApiKey : BOOLEAN, hyperclovaApiKey : BOOLEAN, useAIIntent : BOOLEAN,
   autoStart : BOOLEAN, useWhisper : BOOLEAN]

\* the state that the constructor leaves, lastCommandTime = 0 being longer
\* ago than window, the longest window the specification compares it with;
\* with autoStart its init() has called startListening() (86-88), which
\* with useWhisper has asked for the microphone and waits for the answer.
\* The VoiceEngine of the AIAssistant has a WhisperEngine and no
\* recogniser when useWhisper and openaiApiKey are set (part_006 34-38,
\* voice-engine.ts 42-46)
Constructed(window) ==
  /\ config \in Configs
  /\ intentCache = <<>>
  /\ waitingForConfirmation = NoPending
  /\ lastCommand = <<>>
  /\ lastCommandAge = window
  /\ actionHistory = <<>>
  /\ calls = [i \in Slots |-> IdleCall]
  /\ lateOpenAI = EmptyBag
  /\ delivered = <<>>
  /\ aiSpeech = NoGuard
  /\ tts = Silent
  /\ router = NoRouter
  /\ synth = NoSynth
  /\ assistant = [isInitialized |-> FALSE, initializing |-> 0, registered |-> 0,
                  voiceEngine |->
                    [isListening |-> FALSE,
                     recognitionRef |->
                       IF config.useWhisper /\ config.openaiApiKey
                       THEN "none" ELSE "idle",
                     isRecording |-> FALSE, mediaRecorder |-> "none",
                     microphone |-> 0, stopEvents |-> 0, transcribing |-> 0]]
  /\ recognition = [isListening |-> config.autoStart /\ ~config.useWhisper,
                    recognitionActive |->
                      config.autoStart /\ ~config.useWhisper,
                    recognizer |->
                      IF config.autoStart /\ ~config.useWhisper
                      THEN "running" ELSE "idle",
                    mediaRecorder |-> "none",
                    microphone |->
                      IF config.autoStart /\ config.useWhisper THEN 1 ELSE 0,
                    stopEvents |-> 0, transcribing |-> 0,
                    retry |-> NoTimers,
                    recognitionAttempts |-> 0, timers |-> <<>>,
                    settings |-> DefaultSettings]
  /\ ev = NoEvent

\* autoStart and useWhisper are false unless the page asks for them (44,
\* 46)
Init ==
  Constructed(DuplicateWindowMs) /\ ~config.autoStart /\ ~config.useWhisper

\* the same with the echo verdict looked at last
GateEchoLast(enhancedTranscript, bestConfidence, echo, last, lastAge) ==
  IF last = enhancedTranscript /\ lastAge < DuplicateWindowMs THEN "duplicate"
  ELSE IF Len(Memo(trimmedOf, enhancedTranscript, Trim(enhancedTranscript)))
            < MinTranscriptLength THEN "short"
  ELSE IF \/ bestConfidence > ProcessAbove
          \/ Memo(isHighPriorityOf, enhancedTranscript,
                  isHighPriorityCommand(enhancedTranscript))
  THEN "process"
  ELSE IF bestConfidence > ConfirmAbove THEN "confirm"
  ELSE IF echo THEN "echo"
  ELSE "ignore"

\* the same without the bypass of the high-priority words
GateNoBypass(enhancedTranscript, bestConfidence, echo, last, lastAge) ==
  IF echo THEN "echo"
  ELSE IF last = enhancedTranscript /\ lastAge < DuplicateWindowMs THEN "duplicate"
  ELSE IF Len(Memo(trimmedOf, enhancedTranscript, Trim(enhancedTranscript)))
            < MinTranscriptLength THEN "short"
  ELSE IF bestConfidence > ProcessAbove THEN "process"
  ELSE IF bestConfidence > ConfirmAbove THEN "confirm"
  ELSE "ignore"

\* the same without the duplicate window
GateNoDuplicate(enhancedTranscript, bestConfidence, echo, last, lastAge) ==
  IF echo THEN "echo"
  ELSE IF Len(Memo(trimmedOf, enhancedTranscript, Trim(enhancedTranscript)))
            < MinTranscriptLength THEN "short"
  ELSE IF bestConfidence > ProcessAbove
            \/ Memo(isHighPriorityOf, enhancedTranscript,
                    isHighPriorityCommand(enhancedTranscript)) THEN "process"
  ELSE IF bestConfidence > ConfirmAbove THEN "confirm"
  ELSE "ignore"

\* which branch of handleEnhancedSpeechResult a final result takes
Gate(enhancedTranscript, bestConfidence, echo, last, lastAge) ==
  IF echo THEN "echo"
  ELSE IF last = enhancedTranscript /\ lastAge < DuplicateWindowMs THEN "duplicate"
  ELSE IF Len(Memo(trimmedOf, enhancedTranscript, Trim(enhancedTranscript)))
            < MinTranscriptLength THEN "short"
  ELSE IF \/ bestConfidence > ProcessAbove
          \/ Memo(isHighPriorityOf, enhancedTranscript,
                  isHighPriorityCommand(enhancedTranscript))
  THEN "process"
  ELSE IF bestConfidence > ConfirmAbove THEN "confirm"
  ELSE "ignore"

\* the same, the affirmative branch calling processCommand before it has
\* cleared the slot
ConfirmationStepReentrant(transcript, pending) ==
  LET normalized == Memo(normalizedOf, transcript, Normalize(transcript))
      original == pending.originalCommand
      again == Memo(normalizedOf, original, Normalize(original))
  IN
  IF pending = NoPending
  THEN [branch |-> "plain", analyze |-> TRUE, transcript |-> transcript,
        depth |-> 0, slot |-> NoPending]
  ELSE IF Memo(isConfirmationOf, normalized, isConfirmationResponse(normalized))
  THEN [branch |-> "affirm", analyze |-> TRUE, transcript |-> original,
        depth |-> IF Memo(isConfirmationOf, again, isConfirmationResponse(again))
                  THEN 2 ELSE 1,
        slot |-> NoPending]
  ELSE IF Memo(isCancellationOf, normalized, isCancellation(normalized))
  THEN [branch |-> "cancel", analyze |-> FALSE, transcript |-> transcript,
        depth |-> 0, slot |-> NoPending]
  ELSE [branch |-> "new", analyze |-> TRUE, transcript |-> transcript,
        depth |-> 0, slot |-> NoPending]

\* the part of processCommand before analyzeIntent: what becomes of the
\* pending confirmation (slot), which transcript, if any, goes on to
\* analyzeIntent, and how deep processCommand has called itself.  The
\* affirmative branch clears the slot and calls processCommand(originalCommand)
RECURSIVE ConfirmationStep(_, _)
ConfirmationStep(transcript, pending) ==
  LET normalized == Memo(normalizedOf, transcript, Normalize(transcript)) IN
  IF pending = NoPending
  THEN [branch |-> "plain", analyze |-> TRUE, transcript |-> transcript,
        depth |-> 0, slot |-> NoPending]
  ELSE IF Memo(isConfirmationOf, normalized, isConfirmationResponse(normalized))
  THEN LET inner == ConfirmationStep(pending.originalCommand, NoPending)
       IN [inner EXCEPT !.branch = "affirm", !.depth = @ + 1]
  ELSE IF Memo(isCancellationOf, normalized, isCancellation(normalized))
  THEN [branch |-> "cancel", analyze |-> FALSE, transcript |-> transcript,
        depth |-> 0, slot |-> NoPending]
  ELSE [branch |-> "new", analyze |-> TRUE, transcript |-> transcript,
        depth |-> 0, slot |-> NoPending]

(***************************************************************************)
(* analyzeIntent, cut at its suspension points.  Each piece gives the      *)
(* stage reached: pc "openai" or "hyperclova" when the function suspends   *)
(* on that classifier's call, pc "idle" when its promise settles.          *)
(***************************************************************************)

\* no settlement yet
Unsettled == [kind |-> "none", value |-> NoResult]

Suspended(pc, cache) ==
  [pc |-> pc, settled |-> Unsettled, cache |-> cache]

Returned(result, cache) ==
  [pc |-> "idle", settled |-> Fulfilled(result), cache |-> cache]

Thrown(cache) ==
  [pc |-> "idle", settled |-> Rejected, cache |-> cache]

\* this.intentCache.set(normalized, result)
CacheSet(cache, transcript, result) ==
  (Memo(normalizedOf, transcript, Normalize(transcript)) :> result) @@ cache

\* the pattern matcher's result returned without caching it
PatternFallbackUncached(transcript, cache) ==
  Returned(Memo(basicResultOf, transcript, matchBasicPatterns(transcript)), cache)

\* const basicResult = this.matchBasicPatterns(transcript); cache; return
PatternFallback(transcript, cache) ==
  LET basicResult == Memo(basicResultOf, transcript, matchBasicPatterns(transcript))
  IN Returned(basicResult, CacheSet(cache, transcript, basicResult))

\* the threshold of stage 1 made inclusive
OpenAIAcceptsFromHalf(openaiResult) == openaiResult.confidence >= FastAcceptAbove

\* openaiResult.confidence > 0.5
OpenAIAccepts(openaiResult) == openaiResult.confidence > FastAcceptAbove

\* the threshold of stage 2 made exclusive
HyperCLOVAAcceptsAbove(hyperclovaResult) ==
  hyperclovaResult.confidence > ContextAcceptFrom

\* hyperclovaResult.confidence >= 0.6
HyperCLOVAAccepts(hyperclovaResult) ==
  hyperclovaResult.confidence >= ContextAcceptFrom

\* stage 2: if (this.config.hyperclovaApiKey) await callHyperCLOVAForContext
ContextStage(cfg, transcript, cache) ==
  IF cfg.hyperclovaApiKey
  THEN Suspended("hyperclova", cache)
  ELSE PatternFallback(transcript, cache)

\* the same with stage 2 tried before stage 1
AnalyzeStartContextFirst(cfg, transcript, cache) ==
  LET normalized == Memo(normalizedOf, transcript, Normalize(transcript)) IN
  IF normalized \in DOMAIN cache
  THEN Returned(cache[normalized], cache)
  ELSE IF cfg.useAIIntent /\ (cfg.hyperclovaApiKey \/ cfg.openaiApiKey)
  THEN IF cfg.hyperclovaApiKey
       THEN Suspended("hyperclova", cache)
       ELSE Suspended("openai", cache)
  ELSE PatternFallback(transcript, cache)

\* from the call to the first suspension: cache lookup, then stage 1 or 2
AnalyzeStart(cfg, transcript, cache) ==
  LET normalized == Memo(normalizedOf, transcript, Normalize(transcript)) IN
  IF normalized \in DOMAIN cache
  THEN Returned(cache[normalized], cache)
  ELSE IF cfg.useAIIntent /\ (cfg.hyperclovaApiKey \/ cfg.openaiApiKey)
  THEN IF cfg.openaiApiKey
       THEN Suspended("openai", cache)
       ELSE ContextStage(cfg, transcript, cache)
  ELSE PatternFallback(transcript, cache)

\* after the race of stage 1 settles (the inner try/catch)
AfterOpenAI(cfg, transcript, cache, settled) ==
  IF settled.kind = "result" /\ OpenAIAccepts(settled.value)
  THEN Returned(settled.value, CacheSet(cache, transcript, settled.value))
  ELSE ContextStage(cfg, transcript, cache)

\* stage 2 with no try/catch around it
AfterHyperCLOVAUncaught(transcript, cache, settled) ==
  IF settled.kind = "throw" THEN Thrown(cache)
  ELSE IF HyperCLOVAAccepts(settled.value)
  THEN Returned(settled.value, CacheSet(cache, transcript, settled.value))
  ELSE PatternFallback(transcript, cache)

\* after callHyperCLOVAForContext settles (the outer try/catch)
AfterHyperCLOVA(transcript, cache, settled) ==
  IF settled.kind = "result" /\ HyperCLOVAAccepts(settled.value)
  THEN Returned(settled.value, CacheSet(cache, transcript, settled.value))
  ELSE PatternFallback(transcript, cache)

(***************************************************************************)
(* executeIntentAction and the handlers it calls.  dom is what the page    *)
(* answers: found, whether findElementByText finds the text looked for;    *)
(* clickable, whether the page has any clickable element; search, whether  *)
(* one of focusSearchElement's selectors matches.                          *)
(***************************************************************************)

EmptyPage == [found |-> FALSE, clickable |-> FALSE, search |-> FALSE]

DomStates ==
  {EmptyPage,
   [found |-> FALSE, clickable |-> TRUE, search |-> FALSE],
   [found |-> TRUE, clickable |-> TRUE, search |-> FALSE],
   [found |-> FALSE, clickable |-> FALSE, search |-> TRUE]}

\* 클릭 눌러 선택
clickWords == <<<<"keul", "rig">>, <<"nul", "reo">>, <<"seon", "taeg">>>>

(***************************************************************************)
(* What the handlers say.                                                  *)
(***************************************************************************)

\* 이전 상태로 되돌렸습니다
RevertedState ==
  <<"'i", "jeon", " ", "sang", "tae", "ro", " ", "doe", "dol", "ryeoss",
    "seub", "ni", "da">>

\* 이전 페이지로 돌아갑니다
GoingBack ==
  <<"'i", "jeon", " ", "pe", "'i", "ji", "ro", " ", "dol", "'a", "gab",
    "ni", "da">>

\* 다음 페이지로 이동합니다
GoingNext ==
  <<"da", "'eum", " ", "pe", "'i", "ji", "ro", " ", "'i", "dong", "hab",
    "ni", "da">>

\* 이전 페이지로 이동합니다
GoingPrev ==
  <<"'i", "jeon", " ", "pe", "'i", "ji", "ro", " ", "'i", "dong", "hab",
    "ni", "da">>

\* 페이지 상단으로 이동했습니다
MovedTop ==
  <<"pe", "'i", "ji", " ", "sang", "dan", "'eu", "ro", " ", "'i", "dong",
    "haess", "seub", "ni", "da">>

\* 페이지 하단으로 이동했습니다
MovedBottom ==
  <<"pe", "'i", "ji", " ", "ha", "dan", "'eu", "ro", " ", "'i", "dong",
    "haess", "seub", "ni", "da">>

\*  버튼을 클릭했습니다
ButtonClicked ==
  <<" ", "beo", "teun", "'eul", " ", "keul", "rig", "haess", "seub",
    "ni", "da">>

\* 해당 요소를 찾을 수 없습니다
NoSuchElement ==
  <<"hae", "dang", " ", "'yo", "so", "reul", " ", "chaj", "'eul", " ",
    "su", " ", "'eobs", "seub", "ni", "da">>

\* 검색창을 선택했습니다
SearchSelected ==
  <<"geom", "saeg", "chang", "'eul", " ", "seon", "taeg", "haess",
    "seub", "ni", "da">>

\* 검색창을 찾을 수 없습니다
NoSearchField ==
  <<"geom", "saeg", "chang", "'eul", " ", "chaj", "'eul", " ", "su", " ",
    "'eobs", "seub", "ni", "da">>

\* 메뉴를 열었습니다
MenuOpened ==
  <<"me", "nyu", "reul", " ", "'yeol", "'eoss", "seub", "ni", "da">>

\* 메뉴 버튼을 찾을 수 없습니다
NoMenuButton ==
  <<"me", "nyu", " ", "beo", "teun", "'eul", " ", "chaj", "'eul", " ", "su",
    " ", "'eobs", "seub", "ni", "da">>

\* 을 선택했습니다
TargetSelected ==
  <<"'eul", " ", "seon", "taeg", "haess", "seub", "ni", "da">>

\* 해당 버튼을 찾을 수 없습니다
NoSuchButton ==
  <<"hae", "dang", " ", "beo", "teun", "'eul", " ", "chaj", "'eul", " ",
    "su", " ", "'eobs", "seub", "ni", "da">>

\* 텍스트 입력 모드입니다
InputMode ==
  <<"teg", "seu", "teu", " ", "'ib", "ryeog", " ", "mo", "deu", "'ib",
    "ni", "da">>

\* 로그인을 진행합니다
LoginProceeds ==
  <<"ro", "geu", "'in", "'eul", " ", "jin", "haeng", "hab", "ni", "da">>

\* 명령을 이해하지 못했습니다
NotUnderstood ==
  <<"myeong", "ryeong", "'eul", " ", "'i", "hae", "ha", "ji", " ", "mos",
    "haess", "seub", "ni", "da">>

\* 로그인, 검색, 클릭, 다음, 이전, 위로, 아래로, 취소 명령을 사용하세요
HelpMessage ==
  <<"ro", "geu", "'in", ",", " ", "geom", "saeg", ",", " ", "keul",
    "rig", ",", " ", "da", "'eum", ",", " ", "'i", "jeon", ",", " ",
    "'wi", "ro", ",", " ", "'a", "rae", "ro", ",", " ", "chwi", "so",
    " ", "myeong", "ryeong", "'eul", " ", "sa", "'yong", "ha", "se",
    "'yo">>

\* 위로 스크롤합니다
ScrollingUp ==
  <<"'wi", "ro", " ", "seu", "keu", "rol", "hab", "ni", "da">>

\* 아래로 스크롤합니다
ScrollingDown ==
  <<"'a", "rae", "ro", " ", "seu", "keu", "rol", "hab", "ni", "da">>

\* 맨 위로 이동합니다
MovingToTop ==
  <<"maen", " ", "'wi", "ro", " ", "'i", "dong", "hab", "ni", "da">>

\* 맨 아래로 이동합니다
MovingToBottom ==
  <<"maen", " ", "'a", "rae", "ro", " ", "'i", "dong", "hab", "ni", "da">>

\* recordAction dropping the entry it has just pushed
recordActionDropNewest(history, actionType) ==
  LET pushed == Append(history, [type |-> actionType])
  IN IF Len(pushed) > MaxHistory THEN history ELSE pushed

\* recordAction: the entry is pushed, and the oldest one shifted out once
\* there are more than MaxHistory
recordAction(history, actionType) ==
  LET pushed == Append(history, [type |-> actionType])
  IN IF Len(pushed) > MaxHistory THEN Tail(pushed) ELSE pushed

\* what an executed command leaves: the history, whether it threw, what it
\* did to the page: "click" (element.click()), "scroll" (window.scrollTo
\* or scrollBy), "next" and "prev" (performAction), "restore" (window.scrollTo
\* of the saved position), "back" (window.history.back()), "focus"
\* (element.focus()) or "none"; and said, the text of its first call of
\* this.speak (Undefined when it makes none).  A handler's later calls in
\* the same step return at the guard of line 377: the first call has either
\* set isSpeaking or returned there itself
Did(history, effect, said) ==
  [history |-> history, threw |-> FALSE, effect |-> effect, said |-> said]

Done(history, said) == Did(history, "none", said)

TypeError(history) ==
  [history |-> history, threw |-> TRUE, effect |-> "none", said |-> Undefined]

\* findAndClickByText: the first term found is clicked and recorded; it
\* says nothing itself
findAndClickByText(history, dom) ==
  IF dom.found THEN Did(recordAction(history, "click"), "click", Undefined)
  ELSE Done(history, Undefined)

\* match[1].trim() of transcript.match(clickPattern): what stands before
\* the first of the click words, or Undefined without a match
clickPattern(transcript) ==
  LET at == {i \in 1..Len(transcript) :
               \E k \in 1..Len(clickWords) : MatchAt(transcript, clickWords[k], i)}
  IN IF at = {} THEN Undefined
     ELSE Trim(SubSeq(transcript, 1, (CHOOSE i \in at : \A j \in at : i <= j) - 1))

\* handleGenericClick(transcript): tryElementClick, which records nothing
\* and speaks of its failure (305), else the page's first clickable
\* element; the calls of speak that follow (1287, 1289) return at the guard
handleGenericClick(history, transcript, dom) ==
  IF transcript = Undefined THEN TypeError(history)
  ELSE LET target == clickPattern(transcript)
       IN IF target # Undefined /\ dom.found
          THEN Did(history, "click", target \o ButtonClicked)
          ELSE IF dom.clickable
          THEN Did(recordAction(history, "click"), "click", NoSuchElement)
          ELSE Done(history, NoSuchElement)

\* undoAction: a scroll entry restores its saved position, any other
\* entry goes back in the browser's history
undoAction(action) == IF action.type = "scroll" THEN "restore" ELSE "back"

\* handleCancellation: the newest entry is popped and undone; with no entry,
\* window.history.back()
handleCancellation(history) ==
  IF Len(history) > 0
  THEN Did(SubSeq(history, 1, Len(history) - 1),
           undoAction(history[Len(history)]), RevertedState)
  ELSE Did(history, "back", GoingBack)

\* focusSearchElement: the first element one of the selectors matches is
\* focused; the call of speak that follows it (1222) returns at the guard
focusSearchElement(history, dom) ==
  IF dom.search THEN Did(history, "focus", SearchSelected)
  ELSE Done(history, NoSearchField)

\* openMenu: the first element one of the selectors matches is clicked
openMenu(history, dom) ==
  IF dom.menu THEN Did(history, "click", MenuOpened)
  ELSE Done(history, NoMenuButton)

\* tryElementClick(transcript): the element that holds what stands before
\* the click word is clicked; nothing is recorded
tryElementClick(history, transcript, dom) ==
  LET target == clickPattern(transcript)
  IN IF target # Undefined /\ dom.found
     THEN Did(history, "click", target \o ButtonClicked)
     ELSE Done(history, NoSuchElement)

\* performAction(action, transcript): "next" is the click of findAndClick
\* or window.history.forward(), "prev" the click or window.history.back()
performAction(history, action, transcript, dom) ==
  CASE action = "next" -> Did(history, "next", GoingNext)
    [] action = "prev" -> Did(history, "prev", GoingPrev)
    [] action = "scrollTop" -> Did(history, "scroll", MovedTop)
    [] action = "scrollBottom" -> Did(history, "scroll", MovedBottom)
    [] action = "click" -> handleGenericClick(history, transcript, dom)
    [] action = "search" -> focusSearchElement(history, dom)
    [] action = "menu" -> openMenu(history, dom)
    [] OTHER -> Done(history, Undefined)

\* handleNavigation: 다음 넘어, 이전 뒤로, 위로 상단, 아래 하단
handleNavigation(history, transcript) ==
  IF transcript = Undefined THEN TypeError(history)
  ELSE IF IncludesSome(transcript, <<<<"da", "'eum">>, <<"neom", "'eo">>>>)
  THEN performAction(history, "next", transcript, EmptyPage)
  ELSE IF IncludesSome(transcript, <<<<"'i", "jeon">>, <<"dwi", "ro">>>>)
  THEN performAction(history, "prev", transcript, EmptyPage)
  ELSE IF IncludesSome(transcript, <<<<"'wi", "ro">>, <<"sang", "dan">>>>)
  THEN performAction(history, "scrollTop", transcript, EmptyPage)
  ELSE IF IncludesSome(transcript, <<<<"'a", "rae">>, <<"ha", "dan">>>>)
  THEN performAction(history, "scrollBottom", transcript, EmptyPage)
  ELSE Done(history, Undefined)

\* DEFAULT_COMMANDS: 다음 넘어가기; 이전 뒤로가기; 위로 상단으로; 아래로
\* 하단으로; 클릭 선택 확인; 검색; 메뉴
DEFAULT_COMMANDS ==
  <<[keywords |-> <<<<"da", "'eum">>, <<"neom", "'eo", "ga", "gi">>>>,
     action |-> "next"],
    [keywords |-> <<<<"'i", "jeon">>, <<"dwi", "ro", "ga", "gi">>>>,
     action |-> "prev"],
    [keywords |-> <<<<"'wi", "ro">>, <<"sang", "dan", "'eu", "ro">>>>,
     action |-> "scrollTop"],
    [keywords |-> <<<<"'a", "rae", "ro">>, <<"ha", "dan", "'eu", "ro">>>>,
     action |-> "scrollBottom"],
    [keywords |-> <<<<"keul", "rig">>, <<"seon", "taeg">>, <<"hwag", "'in">>>>,
     action |-> "click"],
    [keywords |-> <<<<"geom", "saeg">>>>, action |-> "search"],
    [keywords |-> <<<<"me", "nyu">>>>, action |-> "menu"]>>

\* the action of the first of DEFAULT_COMMANDS one of whose keywords the
\* transcript holds ("none" without one): the loops of executeCommand
matchCommand(transcript) ==
  LET matching == {c \in DOMAIN DEFAULT_COMMANDS :
                     IncludesSome(transcript, DEFAULT_COMMANDS[c].keywords)}
  IN IF matching = {} THEN "none"
     ELSE DEFAULT_COMMANDS[CHOOSE c \in matching :
                             \A d \in matching : c <= d].action

matchedCommandOf == [t \in InstanceCommands |-> matchCommand(t)]

\* executeCommand(transcript): the first command one of whose keywords the
\* transcript holds is recorded and performed; without one, tryElementClick
executeCommand(history, transcript, dom) ==
  LET action == Memo(matchedCommandOf, transcript, matchCommand(transcript))
  IN IF action # "none"
     THEN performAction(recordAction(history, action), action, transcript, dom)
     ELSE tryElementClick(history, transcript, dom)

\* handleScrollCommand: 위로 올려, 아래로 내려, 맨위 처음, 맨아래 끝
handleScrollCommand(history, transcript) ==
  IF transcript = Undefined THEN TypeError(history)
  ELSE IF IncludesSome(transcript, <<<<"'wi", "ro">>, <<"'ol", "ryeo">>>>)
  THEN Did(history, "scroll", ScrollingUp)
  ELSE IF IncludesSome(transcript, <<<<"'a", "rae", "ro">>, <<"nae", "ryeo">>>>)
  THEN Did(history, "scroll", ScrollingDown)
  ELSE IF IncludesSome(transcript, <<<<"maen", "'wi">>, <<"cheo", "'eum">>>>)
  THEN Did(history, "scroll", MovingToTop)
  ELSE IF IncludesSome(transcript, <<<<"maen", "'a", "rae">>, <<"kkeut">>>>)
  THEN Did(history, "scroll", MovingToBottom)
  ELSE Done(history, Undefined)

\* showHelp
showHelp(history) == Done(history, HelpMessage)

executeIntentAction(intent, history, dom) ==
  CASE intent.intent = "click" ->
         IF intent.target # Undefined /\ intent.target # <<>>
         THEN LET success == findAndClickByText(history, dom)
              IN [success EXCEPT
                    !.said = IF dom.found THEN intent.target \o TargetSelected
                             ELSE NoSuchButton]
         ELSE handleGenericClick(history, intent.originalText, dom)
    [] intent.intent = "search" -> focusSearchElement(history, dom)
    [] intent.intent = "navigate" -> handleNavigation(history, intent.originalText)
    [] intent.intent = "scroll" -> handleScrollCommand(history, intent.originalText)
    [] intent.intent = "input" -> Done(history, InputMode)
    [] intent.intent = "login" ->
         [findAndClickByText(history, dom) EXCEPT !.said = LoginProceeds]
    [] intent.intent = "confirm" ->
         handleGenericClick(history, intent.originalText, dom)
    [] intent.intent = "cancel" -> handleCancellation(history)
    [] intent.intent = "help" -> showHelp(history)
    [] OTHER -> Done(history, NotUnderstood)
(***************************************************************************)
(* Speech output.                                                          *)
(***************************************************************************)

\* what processCommand and requestConfirmation say: 취소했습니다, 명령을
\* 다시 말씀해 주세요, and the question that ends in 맞나요?
Cancelled == <<"chwi", "so", "haess", "seub", "ni", "da">>

SayAgain ==
  <<"myeong", "ryeong", "'eul", " ", "da", "si", " ", "mal", "sseum", "hae",
    " ", "ju", "se", "'yo">>

IsItRight == <<" ", "maj", "na", "'yo", "?">>

\* 잘 들리지 않습니다. 다시 말씀해 주세요
HardToHear ==
  <<"jal", " ", "deul", "ri", "ji", " ", "'anh", "seub", "ni", "da", ".", " ",
    "da", "si", " ", "mal", "sseum", "hae", " ", "ju", "se", "'yo">>

\* 음성 인식이 어렵습니다. 화면의 버튼을 직접 눌러주세요
UseButtons ==
  <<"'eum", "seong", " ", "'in", "sig", "'i", " ", "'eo", "ryeob", "seub",
    "ni", "da", ".", " ", "hwa", "myeon", "'ui", " ", "beo", "teun", "'eul",
    " ", "jig", "jeob", " ", "nul", "reo", "ju", "se", "'yo">>

\* texts handed to say: 장바구니를 열었습니다; 잘 들리지 않습니다. 다시
\* 말씀해 주세요 (the text of line 1430), which is two sentences; 네, which
\* has no keyword, and OK, which is one
SpokenTexts == {CartOpened, U_Yes, U_OK, HardToHear}

\* the texts the handlers of a command say
ActionTexts ==
  {RevertedState, GoingBack, GoingNext, GoingPrev, MovedTop, MovedBottom,
   NoSuchElement, SearchSelected, NoSearchField, NoSuchButton, InputMode,
   LoginProceeds, NotUnderstood, HelpMessage, ScrollingUp, ScrollingDown,
   MovingToTop, MovingToBottom, MenuOpened, NoMenuButton, UseButtons}
    \cup {ScreenButtons[k] \o TargetSelected : k \in 1..Len(ScreenButtons)}
    \cup {clickPattern(t) \o ButtonClicked :
            t \in {u \in Transcripts \cup InstanceCommands :
                     clickPattern(u) # Undefined}}

\* what speak makes of a text: the guard that markAISpeechActive sets, and
\* the number of sentences that fallbackToSpeechSynthesis finds
spokenAs(text) ==
  LET enhancedText == enhanceKoreanText(text)
  IN [guard |-> markAISpeechActive(enhancedText),
      sentences |-> Len(splitIntoNaturalSentences(enhancedText))]

spokenOf ==
  [text \in SpokenTexts \cup {Cancelled, SayAgain} \cup ActionTexts
                        \cup {t \o IsItRight : t \in HeardTranscripts} |->
     spokenAs(text)]

\* speak(text), down to speechSynthesis.speak: nothing while a text is being
\* played; else the guard is set and the text goes to the synthesizer, as
\* one utterance or sentence by sentence
speak(guard, playing, text) ==
  LET spoken == Memo(spokenOf, text, spokenAs(text))
  IN IF playing.isSpeaking
     THEN [aiSpeech |-> guard, tts |-> playing]
     ELSE [aiSpeech |-> spoken.guard,
           tts |-> IF spoken.sentences > 1
                   THEN [Silent EXCEPT !.isSpeaking = TRUE,
                                       !.kind = "sentences",
                                       !.left = spoken.sentences,
                                       !.stale = playing.stale]
                   ELSE [Silent EXCEPT !.isSpeaking = TRUE,
                                       !.kind = "single",
                                       !.left = 1,
                                       !.stale = playing.stale]]

\* a text handed to speak may reach the synthesizer: speak returns at its
\* guard, or the synthesizer holds nothing but stale utterances, fewer than
\* MaxStale.  The code hands a text over whatever the synthesizer holds
\* (390-396): the utterances it holds are bounded here, and a step that
\* would hand over one more is not drawn
HasRoom(playing) ==
  playing.isSpeaking \/ (playing.kind = "none" /\ playing.stale < MaxStale)

\* the handler of the step hands ev'.said to speak, if it says anything
Speaks(guard) ==
  LET out == IF ev'.said = Undefined
             THEN [aiSpeech |-> guard, tts |-> tts]
             ELSE speak(guard, tts, ev'.said)
  IN /\ ev'.said # Undefined => HasRoom(tts)
     /\ aiSpeech' = out.aiSpeech
     /\ tts' = out.tts

\* say(text) of the public interface
Say(text) ==
  LET out == speak(aiSpeech, tts, text)
  IN /\ HasRoom(tts)
     /\ aiSpeech' = out.aiSpeech
     /\ tts' = out.tts
     /\ ev' = [NoEvent EXCEPT !.op = "say", !.said = text]
     /\ UNCHANGED <<synth, assistant, router, recognition, config, intentCache, waitingForConfirmation, lastCommand,
                    lastCommandAge, actionHistory, calls, lateOpenAI, delivered>>

\* the loop of speakSentencesSmooth goes on after the promise of a sentence
\* has resolved: the next sentence is handed to the synthesizer, or the
\* loop is over and isSpeaking is reset (1698)
nextSentence(playing) ==
  IF playing.left > 1
  THEN [playing EXCEPT !.left = @ - 1, !.gap = FALSE]
  ELSE [Silent EXCEPT !.stale = playing.stale]

\* the utterance that the synthesizer plays, the oldest it holds, ends or
\* fails (how is "onend" or "onerror").  A single utterance of
\* fallbackToSpeechSynthesis, stale or not, resets isSpeaking and calls
\* markAISpeechComplete (481-500), whatever is played after it; a sentence
\* of speakSentencesSmooth that fails resolves its promise at once, and one
\* that ends only sets the timer of 1686
UtteranceDone(how) ==
  /\ tts.stale > 0 \/ (tts.kind # "none" /\ ~tts.gap)
  /\ IF tts.stale > 0
     THEN /\ tts' = [tts EXCEPT !.isSpeaking = FALSE, !.stale = @ - 1]
          /\ aiSpeech' = markAISpeechComplete(aiSpeech)
     ELSE IF tts.kind = "single"
     THEN /\ tts' = Silent
          /\ aiSpeech' = markAISpeechComplete(aiSpeech)
     ELSE /\ tts' = IF how = "onend" THEN [tts EXCEPT !.gap = TRUE]
                    ELSE nextSentence(tts)
          /\ aiSpeech' = aiSpeech
  /\ ev' = [NoEvent EXCEPT !.op = how]
  /\ UNCHANGED <<synth, assistant, router, recognition, config, intentCache, waitingForConfirmation, lastCommand,
                 lastCommandAge, actionHistory, calls, lateOpenAI, delivered>>

\* the safety timeout of the single utterance fires (427-442): isSpeaking
\* and recognitionActive are reset, the recogniser is started again if
\* isListening, and the utterance stays with the synthesizer
safetyTimeout ==
  LET ok == recognition.recognizer = "idle"
  IN /\ tts.kind = "single"
     /\ tts.playedFor >= SafetyTimeoutMs
     /\ tts' = [Silent EXCEPT !.stale = tts.stale + 1]
     /\ recognition' =
          [recognition EXCEPT
             !.recognitionActive = recognition.isListening /\ ok,
             !.recognizer = IF recognition.isListening /\ ok
                            THEN "running" ELSE @]
     /\ ev' = [NoEvent EXCEPT
                 !.op = "safety",
                 !.effect = IF ~recognition.isListening THEN "none"
                            ELSE IF ok THEN "start" ELSE "throw"]
     /\ UNCHANGED <<synth, assistant, router, config, intentCache,
                    waitingForConfirmation, lastCommand, lastCommandAge,
                    actionHistory, calls, lateOpenAI, delivered, aiSpeech>>

\* the timer of 1686 fires, 50 ms after a sentence has ended: its promise
\* resolves and the loop goes on
GapOver ==
  /\ tts.gap
  /\ tts' = nextSentence(tts)
  /\ ev' = [NoEvent EXCEPT !.op = "gap"]
  /\ UNCHANGED <<synth, assistant, router, recognition, config, intentCache,
                 waitingForConfirmation, lastCommand, lastCommandAge,
                 actionHistory, calls, lateOpenAI, delivered, aiSpeech>>

(***************************************************************************)
(* Actions.                                                                *)
(***************************************************************************)

\* the same without the gate on the confidence
CompleteUngated(settled, history, dom) ==
  IF settled.kind = "throw"
  THEN [history |-> history, executed |-> FALSE, threw |-> TRUE,
        effect |-> "none", said |-> Undefined]
  ELSE LET x == executeIntentAction(settled.value, history, dom)
       IN [history |-> x.history, executed |-> TRUE, threw |-> x.threw,
           effect |-> x.effect, said |-> x.said]

\* the rest of processCommand once analyzeIntent has settled: the gate on
\* the confidence, then executeIntentAction
Complete(settled, history, dom) ==
  IF settled.kind = "throw"
  THEN [history |-> history, executed |-> FALSE, threw |-> TRUE,
        effect |-> "none", said |-> Undefined]
  ELSE IF settled.value.confidence > ExecuteAbove
  THEN LET x == executeIntentAction(settled.value, history, dom)
       IN [history |-> x.history, executed |-> TRUE, threw |-> x.threw,
           effect |-> x.effect, said |-> x.said]
  ELSE [history |-> history, executed |-> FALSE, threw |-> FALSE,
        effect |-> "none", said |-> SayAgain]

\* the record of what analyzeIntent has returned, with one more result
Deliver(del, transcript, result) ==
  LET normalized == Memo(normalizedOf, transcript, Normalize(transcript))
  IN (normalized :>
        ((IF normalized \in DOMAIN del THEN del[normalized] ELSE {})
           \cup {result})) @@ del

\* what the page can answer: something to click only while the session has
\* recorded fewer than MaxRecorded actions
Pages == IF Len(actionHistory) < MaxRecorded THEN DomStates ELSE {EmptyPage}

\* the pages that answer differently to what the handler of the settled
\* intent asks of the page: a text to click (findElementByText, clickable
\* elements) or a search field
PagesAsked(settled) ==
  IF settled.kind # "result" THEN {EmptyPage}
  ELSE CASE settled.value.intent \in {"click", "login", "confirm"} ->
              {p \in Pages : ~p.search}
         [] settled.value.intent = "search" ->
              {p \in DomStates : ~p.found /\ ~p.clickable}
         [] OTHER -> {EmptyPage}

\* invocation i, resolving transcript, moves to the stage run: it suspends
\* on a classifier call, or analyzeIntent settles and processCommand ends on
\* the page it finds
Advance(i, transcript, run, event) ==
  IF run.pc # "idle"
  THEN /\ calls' = [calls EXCEPT ![i] =
                      [pc |-> run.pc, transcript |-> transcript, age |-> 0,
                       openaiCalls |->
                         @.openaiCalls + (IF run.pc = "openai" THEN 1 ELSE 0),
                       hyperclovaCalls |->
                         @.hyperclovaCalls + (IF run.pc = "hyperclova" THEN 1 ELSE 0)]]
       /\ ev' = [event EXCEPT !.transcript = transcript, !.fetched = {run.pc}]
       /\ UNCHANGED <<intentCache, actionHistory, delivered>>
  ELSE \E dom \in PagesAsked(run.settled) :
       LET end == Complete(run.settled, actionHistory, dom)
       IN /\ calls' = [calls EXCEPT ![i] = IdleCall]
          /\ intentCache' = run.cache
          /\ delivered' = IF run.settled.kind = "result"
                          THEN Deliver(delivered, transcript, run.settled.value)
                          ELSE delivered
          /\ actionHistory' = end.history
          /\ ev' = [event EXCEPT
                      !.transcript = transcript,
                      !.outcome = IF run.settled.kind = "result"
                                  THEN "resolved" ELSE "rejected",
                      !.result = run.settled.value,
                      !.executed = end.executed,
                      !.threw = end.threw,
                      !.effect = end.effect,
                      !.said = end.said]

\* classifier requests of stage 1 that are still on the network
OpenAIInFlight ==
  BagCardinality(lateOpenAI) + Cardinality({i \in Slots : calls[i].pc = "openai"})

\* processCommand(transcript) up to its first suspension, event being
\* what its caller has noted of the step: the pending confirmation is
\* looked at, and a transcript that goes on to analyzeIntent takes the
\* lowest slot of slots that is free
processCommand(transcript, event, slots) ==
  LET step == ConfirmationStep(transcript, waitingForConfirmation)
      run == AnalyzeStart(config, step.transcript, intentCache)
      free == {i \in slots : calls[i].pc = "idle"}
  IN /\ waitingForConfirmation' = step.slot
     /\ IF step.analyze
        THEN /\ free # {}
             /\ run.pc = "openai" => OpenAIInFlight < MaxCalls
             /\ Advance(CHOOSE i \in free : \A j \in free : i <= j,
                        step.transcript, run,
                        [event EXCEPT
                           !.branch = step.branch,
                           !.depth = step.depth,
                           !.hit = Memo(normalizedOf, step.transcript, Normalize(step.transcript))
                                     \in DOMAIN intentCache])
        ELSE /\ ev' = [event EXCEPT !.branch = step.branch,
                                     !.said = Cancelled]
             /\ UNCHANGED <<intentCache, actionHistory, calls, delivered>>

\* handleEnhancedSpeechResult, and processCommand up to its first
\* suspension, given the verdict echo of isAISpeechEcho on the enhanced
\* transcript.  A new invocation takes the lowest slot of slots that is free.
\* The code starts processCommand whatever is in flight (1378): the
\* invocations in flight are bounded here, by MaxCalls and by the slots a
\* scenario hands over ({1} where the user waits for a command to be
\* resolved), and a result that would start one more is not drawn.
handleEnhancedSpeechResult(speech, echo, slots) ==
  LET best == BestAlternative(speech.alternatives)
      enhancedTranscript ==
        Memo(enhancedOf, best.transcript, enhanceKoreanRecognition(best.transcript))
      gate == IF ~speech.isFinal THEN "interim"
              ELSE Gate(enhancedTranscript, best.confidence, echo,
                        lastCommand, lastCommandAge)
      event == [NoEvent EXCEPT !.op = "onresult", !.gate = gate,
                               !.heard = enhancedTranscript,
                               !.confidence = best.confidence,
                               !.pending = waitingForConfirmation]
  IN /\ UNCHANGED <<synth, assistant, router, config, lateOpenAI>>
     /\ recognition' = IF gate = "process"
                       THEN [recognition EXCEPT !.recognitionAttempts = 0]
                       ELSE recognition
     /\ IF gate = "process"
        THEN /\ lastCommand' = enhancedTranscript
             /\ lastCommandAge' = 0
             /\ processCommand(enhancedTranscript, event, slots)
        ELSE /\ waitingForConfirmation' =
                  IF gate = "confirm" THEN Pending(enhancedTranscript)
                  ELSE waitingForConfirmation
             /\ ev' = [event EXCEPT
                         !.said = IF gate = "confirm"
                                  THEN enhancedTranscript \o IsItRight
                                  ELSE Undefined]
             /\ UNCHANGED <<intentCache, actionHistory, calls, delivered,
                            lastCommand, lastCommandAge>>

\* recognition.onresult: isAISpeechEcho runs on the enhanced transcript of
\* a final result, and what the handler says goes to speak
HandleSpeechResult(speech, slots) ==
  LET best == BestAlternative(speech.alternatives)
      check == isAISpeechEcho(aiSpeech,
                             Memo(enhancedOf, best.transcript,
                                  enhanceKoreanRecognition(best.transcript)))
  IN /\ handleEnhancedSpeechResult(speech, check.isEcho, slots)
     /\ Speaks(IF speech.isFinal THEN check.guard ELSE aiSpeech)

\* the race of stage 1 is won by callOpenAI: it settles before the timer
OpenAIResponse(i, response) ==
  LET settled == callOpenAI(calls[i].transcript, response)
  IN /\ calls[i].pc = "openai"
     /\ Advance(i, calls[i].transcript,
                AfterOpenAI(config, calls[i].transcript, intentCache, settled),
                [NoEvent EXCEPT !.op = "openai",
                                !.remote = IF settled.kind = "result"
                                           THEN "fulfilled" ELSE "rejected",
                                !.answer = settled.value,
                                !.waited = calls[i].age])
     /\ Speaks(aiSpeech)
     /\ UNCHANGED <<synth, assistant, router, recognition, config,
                    waitingForConfirmation, lastCommand, lastCommandAge,
                    lateOpenAI>>

\* the timer of stage 1 has run for OpenAITimeoutMs
TimerDue(age) == age >= OpenAITimeoutMs

\* the race of stage 1 is won by the timer; the request stays on the network
OpenAITimeout(i) ==
  /\ calls[i].pc = "openai"
  /\ TimerDue(calls[i].age)
  /\ lateOpenAI' = lateOpenAI (+) SetToBag({calls[i].transcript})
  /\ Advance(i, calls[i].transcript,
             AfterOpenAI(config, calls[i].transcript, intentCache, Rejected),
             [NoEvent EXCEPT !.op = "timeout", !.remote = "timeout",
                             !.waited = calls[i].age])
  /\ Speaks(aiSpeech)
  /\ UNCHANGED <<synth, assistant, router, recognition, config,
                 waitingForConfirmation, lastCommand, lastCommandAge>>

\* a late answer that is accepted and cached all the same
OpenAILateCached(response) ==
  \E transcript \in BagToSet(lateOpenAI) :
  LET settled == callOpenAI(transcript, response)
  IN /\ lateOpenAI' = lateOpenAI (-) SetToBag({transcript})
     /\ intentCache' = IF settled.kind = "result" /\ OpenAIAccepts(settled.value)
                       THEN CacheSet(intentCache, transcript, settled.value)
                       ELSE intentCache
     /\ ev' = [NoEvent EXCEPT !.op = "late", !.transcript = transcript,
                              !.answer = settled.value]
     /\ UNCHANGED <<synth, assistant, router, recognition, config, waitingForConfirmation, lastCommand,
                    lastCommandAge, actionHistory, calls, delivered,
                    aiSpeech, tts>>

\* the callOpenAI promise of a call of transcript settles after its race
\* was lost: nobody listens
OpenAILate(response) ==
  \E transcript \in BagToSet(lateOpenAI) :
  /\ lateOpenAI' = lateOpenAI (-) SetToBag({transcript})
  /\ ev' = [NoEvent EXCEPT !.op = "late", !.transcript = transcript,
                           !.answer = callOpenAI(transcript, response).value]
  /\ UNCHANGED <<synth, assistant, router, recognition, config, intentCache, waitingForConfirmation, lastCommand,
                 lastCommandAge, actionHistory, calls, delivered, aiSpeech, tts>>

\* callHyperCLOVAForContext settles
HyperCLOVAResponse(i, response) ==
  LET settled == callHyperCLOVAForContext(calls[i].transcript, response)
  IN /\ calls[i].pc = "hyperclova"
     /\ Advance(i, calls[i].transcript,
                AfterHyperCLOVA(calls[i].transcript, intentCache, settled),
                [NoEvent EXCEPT !.op = "hyperclova",
                                !.response = response,
                                !.remote = IF settled.kind = "result"
                                           THEN "fulfilled" ELSE "rejected",
                                !.answer = settled.value])
     /\ Speaks(aiSpeech)
     /\ UNCHANGED <<synth, assistant, router, recognition, config,
                    waitingForConfirmation, lastCommand, lastCommandAge,
                    lateOpenAI>>

\* the guard's clock: isAISpeechEcho reads lastAISpeechTime only while the
\* guard is active (1622-1627), and time is kept for it only then
GuardAged(guard, ms) ==
  IF guard.active
  THEN [guard EXCEPT !.age = Min(@ + ms, EchoGuardMs + TickMs)]
  ELSE guard

\* the milliseconds that the timers with a delay of their own have left:
\* the race of each classifier call of stage 1 (1041), the safety timeout of
\* the single utterance (442), and the timers of handleLowConfidenceResult
\* and clearCommandHistoryAfterTTS
TimersLeft ==
  {OpenAITimeoutMs - calls[i].age : i \in {j \in Slots : calls[j].pc = "openai"}}
    \cup (IF tts.kind = "single" THEN {SafetyTimeoutMs - tts.playedFor} ELSE {})
    \cup {recognition.timers[k].left : k \in DOMAIN recognition.timers}

\* time passes: ms milliseconds, or what the next timer has left if that
\* is less, and none while a timer is due.  The timers of 1686 (50 ms)
\* and 564 (100 ms) run for less than any step: they fire before time
\* passes.  lastCommandAge is kept up to window, the longest window that
\* Date.now() - this.lastCommandTime is compared with
Elapse(ms, window) ==
  LET lefts == TimersLeft \cup {ms}
      d == CHOOSE x \in lefts : \A y \in lefts : x <= y
  IN /\ d > 0
     /\ ~tts.gap
     /\ synth.polls = 0
     /\ calls' = [i \in Slots |->
                    IF calls[i].pc = "openai"
                    THEN [calls[i] EXCEPT !.age = @ + d]
                    ELSE calls[i]]
     /\ lastCommandAge' = Min(lastCommandAge + d, window)
     /\ aiSpeech' = GuardAged(aiSpeech, d)
     /\ tts' = IF tts.kind = "single"
               THEN [tts EXCEPT !.playedFor = @ + d]
               ELSE tts
     /\ recognition' =
          [recognition EXCEPT
             !.timers = [k \in DOMAIN @ |-> [@[k] EXCEPT !.left = @ - d]]]
     /\ ev' = [NoEvent EXCEPT !.op = "tick"]
     /\ UNCHANGED <<synth, assistant, router, config, intentCache,
                    waitingForConfirmation, lastCommand, actionHistory,
                    lateOpenAI, delivered>>

\* the clock's step
Tick == Elapse(TickMs, DuplicateWindowMs)

\* time passes in a conversation, where an utterance is over before the
\* clock's next step
Pause == ~tts.isSpeaking /\ Tick

(***************************************************************************)
(* Specifications.                                                         *)
(***************************************************************************)

\* the conversation: every recognition result, one invocation at a time
Next ==
  \/ \E speech \in SpeechResults :
       HandleSpeechResult(speech, {1})
  \/ \E r \in FewOpenAIResponses : OpenAIResponse(1, r)
  \/ OpenAITimeout(1)
  \/ \E r \in FewOpenAIResponses : OpenAILate(r)
  \/ \E r \in FewHyperResponses : HyperCLOVAResponse(1, r)
  \/ UtteranceDone("onend")
  \/ Pause

Spec == Init /\ [][Next]_vars

\* intent resolution: one command, one invocation at a time, against every
\* response of the classifiers
AnalyzeNext ==
  \/ \E speech \in Commands :
       HandleSpeechResult(speech, {1})
  \/ \E r \in OpenAIResponses : OpenAIResponse(1, r)
  \/ OpenAITimeout(1)
  \/ \E r \in OpenAIResponses : OpenAILate(r)
  \/ \E r \in HyperResponses : HyperCLOVAResponse(1, r)
  \/ UtteranceDone("onend")
  \/ Pause

AnalyzeSpec == Init /\ [][AnalyzeNext]_vars

\* what the code's scheduling guarantees: time passes and a due timer fires
\* (the race of 1041 ends the wait for the fast classifier).  Nothing is
\* asked of either classifier's fetch: the await of 706 has no timer and
\* no abort, and a fetch need not settle
AnalyzeFairness ==
  /\ WF_vars(UtteranceDone("onend"))
  /\ WF_vars(Pause)
  /\ WF_vars(OpenAITimeout(1))

FairAnalyzeSpec == AnalyzeSpec /\ AnalyzeFairness

\* a confirmation and the replies that cancel it, the classifiers being
\* out of reach
ConfirmNext ==
  \/ \E speech \in ConfirmReplies :
       HandleSpeechResult(speech, {1})
  \/ OpenAIResponse(1, Failure("network_error"))
  \/ OpenAITimeout(1)
  \/ OpenAILate(Failure("network_error"))
  \/ HyperCLOVAResponse(1, Failure("network_error"))
  \/ UtteranceDone("onend")
  \/ Pause

ConfirmSpec == Init /\ [][ConfirmNext]_vars

\* one command said again while it is being resolved: invocations overlap
OverlapNext ==
  \/ \E speech \in Repeated :
       HandleSpeechResult(speech, Slots)
  \/ \E i \in Slots, r \in FewOpenAIResponses :
       OpenAIResponse(i, r)
  \/ \E i \in Slots : OpenAITimeout(i)
  \/ \E r \in FewOpenAIResponses : OpenAILate(r)
  \/ \E i \in Slots, r \in FewHyperResponses :
       HyperCLOVAResponse(i, r)
  \/ UtteranceDone("onend")
  \/ Pause

OverlapSpec == Init /\ [][OverlapNext]_vars


(***************************************************************************)
(* Speech output and the echo guard at work.                               *)
(***************************************************************************)

\* final results the recogniser is not sure of, so that none is processed,
\* and one interim result
Heard ==
  {[alternatives |-> <<Alternative(u, 50)>>, isFinal |-> TRUE] :
     u \in {CartOpened, CartHeard, U_Cart, U_HearAgain, U_Yes, U_OK}}
    \cup {[alternatives |-> <<Alternative(CartOpened, 50)>>, isFinal |-> FALSE]}

\* the assistant speaks and listens at the same time
EchoNext ==
  \/ \E text \in SpokenTexts : Say(text)
  \/ UtteranceDone("onend")
  \/ UtteranceDone("onerror")
  \/ GapOver
  \/ safetyTimeout
  \/ \E speech \in Heard : HandleSpeechResult(speech, {1})
  \/ Tick

EchoSpec == Init /\ [][EchoNext]_vars

\* a command has just been processed, and less than the duplicate window
\* passes
TickWithinWindow ==
  /\ lastCommand # <<>>
  /\ lastCommandAge = 0
  /\ Elapse(WindowTickMs, DuplicateWindowMs)

\* a scroll command that the recogniser delivers again and again while
\* the assistant is speaking
DuplicateSpec ==
  /\ Init
  /\ [][\/ Say(CartOpened)
        \/ \E isFinal \in BOOLEAN :
             HandleSpeechResult([alternatives |-> <<Alternative(U_Down, 51)>>,
                                 isFinal |-> isFinal], {1})
        \/ OpenAIResponse(1, Failure("network_error"))
        \/ OpenAITimeout(1)
        \/ OpenAILate(Failure("network_error"))
        \/ HyperCLOVAResponse(1, Failure("network_error"))
        \/ UtteranceDone("onend")
        \/ safetyTimeout
        \/ Tick
        \/ TickWithinWindow]_vars

(***************************************************************************)
(* The action history on its own, and undo in a conversation.              *)
(***************************************************************************)

\* recordAction(actionType), called on the assistant
RecordAction(actionType) ==
  /\ actionHistory' = recordAction(actionHistory, actionType)
  /\ ev' = [NoEvent EXCEPT !.op = "record", !.before = actionHistory]
  /\ UNCHANGED <<synth, assistant, router, recognition, config, intentCache, waitingForConfirmation, lastCommand,
                 lastCommandAge, calls, lateOpenAI, delivered, aiSpeech, tts>>

\* handleCancellation(), called on the assistant
Undo ==
  LET undone == handleCancellation(actionHistory)
  IN /\ actionHistory' = undone.history
     /\ ev' = [NoEvent EXCEPT !.op = "undo", !.before = actionHistory,
                              !.effect = undone.effect,
                              !.said = undone.said]
     /\ Speaks(aiSpeech)
     /\ UNCHANGED <<synth, assistant, router, recognition, config,
                    intentCache, waitingForConfirmation, lastCommand,
                    lastCommandAge, calls, lateOpenAI, delivered>>

\* actions of the two kinds that undoAction tells apart are recorded and
\* undone
HistoryNext ==
  \/ \E actionType \in {"click", "scroll"} : RecordAction(actionType)
  \/ Undo
  \/ UtteranceDone("onend")

HistorySpec == Init /\ [][HistoryNext]_vars

\* clicks, scrolls and cancellations are spoken, the classifiers being out
\* of reach
UndoNext ==
  \/ \E speech \in UndoCommands :
       HandleSpeechResult(speech, {1})
  \/ OpenAIResponse(1, Failure("network_error"))
  \/ OpenAITimeout(1)
  \/ OpenAILate(Failure("network_error"))
  \/ HyperCLOVAResponse(1, Failure("network_error"))
  \/ UtteranceDone("onend")
  \/ Pause

UndoSpec == Init /\ [][UndoNext]_vars
(***************************************************************************)
(* CommandRouter and its KoreanCancellationManager.  router.history is the *)
(* manager's actionHistory, newest entry first: the action recorded,       *)
(* whether an element was recorded with it, and canUndo.  router.commands  *)
(* is the command list; effect is what a command's action does: the        *)
(* defaults look for a button ("next", "prev") or scroll, and the action   *)
(* of a registered command is the page's own ("custom").  processCommand   *)
(* is async: a call runs to its first await in one step, and what it does  *)
(* after that await waits in router.pending, oldest first, and runs in a   *)
(* step of its own: "shift" (handleCancellation, 99), "next" and "prev"    *)
(* (handleNavigation, 168-182), "element" (tryElementInteraction,          *)
(* 132-144).  The calls suspended are bounded by MaxPending and the        *)
(* entries of the history by MaxRouterRecorded: a step that would go       *)
(* beyond is not drawn.  The command descriptions are written in Latin     *)
(* letters.                                                                *)
(***************************************************************************)

\* 아니 아니야 아니에요 취소 취소해줘 취소해 되돌려 되돌리기 이전으로
\* 잘못됐어 다시 원래대로
cancellationKeywords ==
  <<<<"'a", "ni">>, <<"'a", "ni", "'ya">>, <<"'a", "ni", "'e", "'yo">>,
    <<"chwi", "so">>, <<"chwi", "so", "hae", "jwo">>,
    <<"chwi", "so", "hae">>, <<"doe", "dol", "ryeo">>,
    <<"doe", "dol", "ri", "gi">>, <<"'i", "jeon", "'eu", "ro">>,
    <<"jal", "mos", "dwaess", "'eo">>, <<"da", "si">>,
    <<"'won", "rae", "dae", "ro">>>>

isCancellationWord(word) == ListIncludes(cancellationKeywords, word)

\* extractCancellationCommand: 취소 for 취소, 되돌리기 for 되돌, 이전으로
\* for 이전, else null
extractCancellationCommand(text) ==
  IF Includes(text, <<"chwi", "so">>) THEN <<"chwi", "so">>
  ELSE IF Includes(text, <<"doe", "dol">>) THEN <<"doe", "dol", "ri", "gi">>
  ELSE IF Includes(text, <<"'i", "jeon">>) THEN <<"'i", "jeon", "'eu", "ro">>
  ELSE Undefined

\* parseCompoundCommand.  The compound pattern /(.*?),?\s*(아니|취소)(.*)$/
\* matches at the first 아니 or 취소 of the transcript, lastPart being
\* what follows the word; with a match that is a cancellation word or is
\* followed by 취소, finalCommand is the cancellation that lastPart names,
\* or 취소.  Else any keyword makes it 아니, and without one finalCommand
\* is the transcript.  confidence is in hundredths
parseCompoundCommand(transcript) ==
  LET normalized == Normalize(transcript)
      starts == {i \in 1..Len(normalized) :
                   \/ MatchAt(normalized, <<"'a", "ni">>, i)
                   \/ MatchAt(normalized, <<"chwi", "so">>, i)}
      first == CHOOSE i \in starts : \A j \in starts : i <= j
      cancellation == SubSeq(normalized, first, first + 1)
      lastPart == SubSeq(normalized, first + 2, Len(normalized))
      extracted == extractCancellationCommand(lastPart)
  IN IF /\ starts # {}
        /\ \/ isCancellationWord(cancellation)
           \/ Includes(lastPart, <<"chwi", "so">>)
     THEN [finalCommand |-> IF extracted # Undefined THEN extracted
                            ELSE <<"chwi", "so">>,
           hasCancellation |-> TRUE, confidence |-> 90]
     ELSE IF IncludesSome(normalized, cancellationKeywords)
     THEN [finalCommand |-> <<"'a", "ni">>, hasCancellation |-> TRUE,
           confidence |-> 85]
     ELSE [finalCommand |-> transcript, hasCancellation |-> FALSE,
           confidence |-> 70]

\* what the router is given: 아니, 다시, 확인, 아니 이전으로 and OK, 다음,
\* 아래로, 홈, 확인 클릭
U_NoBefore ==
  <<"hwag", "'in", ",", " ", "'a", "ni", " ", "'i", "jeon", "'eu", "ro">>

RouterTranscripts ==
  {U_No, U_Again, U_NoBefore, U_OK, <<"da", "'eum">>, U_Down, <<"hom">>,
   <<"hwag", "'in", " ", "keul", "rig">>}

parsedOf == [t \in RouterTranscripts |-> parseCompoundCommand(t)]

normalizedCommandOf == [t \in RouterTranscripts |-> Normalize(t)]

isUndoableAction(action) ==
  action \in {"navigate", "click", "form_submit", "scroll"}

\* KoreanCancellationManager.recordAction: the entry is put first, and the
\* history cut to maxHistorySize
manager_recordAction(history, action, element) ==
  LET unshifted == <<[action |-> action, element |-> element,
                      canUndo |-> isUndoableAction(action)]>> \o history
  IN IF Len(unshifted) > maxHistorySize
     THEN SubSeq(unshifted, 1, maxHistorySize) ELSE unshifted

\* undoLastAction(action) on a page whose undo buttons are undoButton:
\* "undo" when one of [data-undo], .undo-btn and .back-btn is there,
\* "cancel" when only a .cancel-btn is, "none" without any.  What it does
\* to the page: history.back(), the click of the undo button, the scroll
\* position restored, or nothing
undoLastAction(action, undoButton) ==
  CASE action.action = "click" ->
         IF action.element /\ undoButton # "none"
         THEN (IF undoButton = "undo" THEN "click" ELSE "none")
         ELSE "back"
    [] action.action = "scroll" -> "restore"
    [] OTHER -> "back"

\* KoreanCancellationManager.handleCancellation() up to its await, on a
\* page with undoButton: false at once when the history is empty or its
\* newest entry cannot be undone (90-92); else the entry is undone, and the
\* entry that is first after the await is removed
manager_handleCancellation(history, undoButton) ==
  LET undoable == history # <<>> /\ history[1].canUndo
  IN [undoes |-> undoable,
      effect |-> IF undoable THEN undoLastAction(history[1], undoButton)
                 ELSE "none"]

\* CommandRouter.processCommand(transcript), up to its first await, on a
\* page with undoButton.  A command is recorded before its action is
\* called
CommandRouter_processCommand(transcript, undoButton) ==
  LET parsed == Memo(parsedOf, transcript, parseCompoundCommand(transcript))
      normalizedTranscript ==
        Memo(normalizedCommandOf, parsed.finalCommand,
             Normalize(parsed.finalCommand))
      \* 95: normalizedTranscript.includes(keyword.toLowerCase())
      matching == {c \in 1..Len(router.commands) :
                     \E k \in DOMAIN router.commands[c].keywords :
                       Includes(normalizedTranscript,
                                ToLowerCase(router.commands[c].keywords[k]))}
      command == router.commands[CHOOSE c \in matching : \A d \in matching : c <= d]
      undone == manager_handleCancellation(router.history, undoButton)
      clickMatch == IncludesSome(normalizedTranscript, clickWords)
      event == [NoEvent EXCEPT !.op = "router", !.heard = transcript,
                               !.before = router.history]
  IN /\ Len(router.pending) < MaxPending
     /\ (~parsed.hasCancellation /\ matching # {})
          => Len(router.history) < MaxRouterRecorded
     /\ IF parsed.hasCancellation
        THEN /\ router' = IF undone.undoes
                          THEN [router EXCEPT !.pending = Append(@, "shift")]
                          ELSE router
             /\ ev' = [event EXCEPT
                         !.branch = "cancel",
                         !.executed = undone.undoes,
                         !.effect = undone.effect]
        ELSE IF matching # {}
        THEN /\ router' =
                  [router EXCEPT
                     !.history = manager_recordAction(@, command.description, FALSE),
                     !.pending = IF command.effect \in {"next", "prev"}
                                 THEN Append(@, command.effect) ELSE @]
             /\ ev' = [event EXCEPT
                         !.branch = "command", !.executed = TRUE,
                         !.effect = IF command.effect \in {"next", "prev"}
                                    THEN "none" ELSE command.effect]
        \* tryElementInteraction: the click is not recorded
        ELSE /\ router' = IF clickMatch
                          THEN [router EXCEPT !.pending = Append(@, "element")]
                          ELSE router
             /\ ev' = [event EXCEPT !.branch = "element"]
     /\ UNCHANGED <<recognition, config, intentCache, waitingForConfirmation,
                    lastCommand, lastCommandAge, actionHistory, calls,
                    lateOpenAI, delivered, aiSpeech, tts, assistant, synth>>

\* the processCommand call that has waited longest goes on after its
\* await, found telling whether scanPage has what it looks for:
\* handleCancellation removes the first entry of the history, whichever it
\* is by now; handleNavigation and tryElementInteraction click what they
\* find
CommandRouter_resumes(found) ==
  /\ router.pending # <<>>
  /\ router' = [router EXCEPT
                  !.pending = Tail(@),
                  !.history = IF Head(router.pending) = "shift" /\ @ # <<>>
                              THEN Tail(@) ELSE @]
  /\ ev' = [NoEvent EXCEPT
              !.op = "resume", !.branch = Head(router.pending),
              !.effect = IF Head(router.pending) # "shift" /\ found
                         THEN "click" ELSE "none"]
  /\ UNCHANGED <<recognition, config, intentCache, waitingForConfirmation,
                 lastCommand, lastCommandAge, actionHistory, calls,
                 lateOpenAI, delivered, aiSpeech, tts, assistant, synth>>

\* registerCommand(command), which AIAssistant.addCustomCommand calls
CommandRouter_registerCommand(command) ==
  /\ Len(router.commands) < MaxCommands
  /\ router' = [router EXCEPT !.commands = Append(@, command)]
  /\ ev' = [NoEvent EXCEPT !.op = "registerCommand"]
  /\ UNCHANGED <<recognition, config, intentCache, waitingForConfirmation,
                 lastCommand, lastCommandAge, actionHistory, calls,
                 lateOpenAI, delivered, aiSpeech, tts, assistant, synth>>

\* removeCommand(keywords), which AIAssistant.removeCommand calls: every
\* command one of whose keywords is in keywords leaves the list
CommandRouter_removeCommand(keywords) ==
  /\ LET stays(cmd) ==
           ~\E k \in DOMAIN cmd.keywords : cmd.keywords[k] \in keywords
     IN router' = [router EXCEPT !.commands = SelectSeq(router.commands, stays)]
  /\ ev' = [NoEvent EXCEPT !.op = "removeCommand"]
  /\ UNCHANGED <<recognition, config, intentCache, waitingForConfirmation,
                 lastCommand, lastCommandAge, actionHistory, calls,
                 lateOpenAI, delivered, aiSpeech, tts, assistant, synth>>

\* KoreanCancellationManager.recordAction(action, element), called on the
\* manager
KoreanCancellationManager_recordAction(action, element) ==
  /\ Len(router.history) < MaxRouterRecorded
  /\ router' = [router EXCEPT
                  !.history = manager_recordAction(@, action, element)]
  /\ ev' = [NoEvent EXCEPT !.op = "recordAction"]
  /\ UNCHANGED <<recognition, config, intentCache, waitingForConfirmation,
                 lastCommand, lastCommandAge, actionHistory, calls,
                 lateOpenAI, delivered, aiSpeech, tts, assistant, synth>>

\* KoreanCancellationManager.handleCancellation(), called on the manager,
\* up to its await
KoreanCancellationManager_handleCancellation(undoButton) ==
  LET undone == manager_handleCancellation(router.history, undoButton)
  IN /\ Len(router.pending) < MaxPending
     /\ router' = IF undone.undoes
                  THEN [router EXCEPT !.pending = Append(@, "shift")]
                  ELSE router
     /\ ev' = [NoEvent EXCEPT !.op = "handleCancellation",
                              !.before = router.history,
                              !.executed = undone.undoes,
                              !.effect = undone.effect]
     /\ UNCHANGED <<recognition, config, intentCache, waitingForConfirmation,
                    lastCommand, lastCommandAge, actionHistory, calls,
                    lateOpenAI, delivered, aiSpeech, tts, assistant, synth>>

\* KoreanCancellationManager.clearHistory()

KoreanCancellationManager_clearHistory ==
  /\ router' = [router EXCEPT !.history = <<>>]
  /\ ev' = [NoEvent EXCEPT !.op = "clearHistory"]
  /\ UNCHANGED <<recognition, config, intentCache, waitingForConfirmation,
                 lastCommand, lastCommandAge, actionHistory, calls,
                 lateOpenAI, delivered, aiSpeech, tts, assistant, synth>>

\* the router is given commands, cancellations and a word it does not
\* know, on pages with and without an undo button; a page registers 홈 and
\* OK, written in capitals, and removes them and 다음, records a click on
\* an element and a scroll, undoes and clears the history
RouterNext ==
  \/ \E transcript \in RouterTranscripts,
        undoButton \in {"none", "cancel", "undo"} :
       CommandRouter_processCommand(transcript, undoButton)
  \/ \E found \in BOOLEAN : CommandRouter_resumes(found)
  \/ \E command \in {HomeCommand, OKCommand} :
       CommandRouter_registerCommand(command)
  \/ \E keywords \in {{<<"hom">>}, {<<"da", "'eum">>}, {U_OK}} :
       CommandRouter_removeCommand(keywords)
  \/ \E recorded \in {<<"click", TRUE>>, <<"click", FALSE>>,
                      <<"scroll", FALSE>>} :
       KoreanCancellationManager_recordAction(recorded[1], recorded[2])
  \/ \E undoButton \in {"none", "cancel", "undo"} :
       KoreanCancellationManager_handleCancellation(undoButton)
  \/ KoreanCancellationManager_clearHistory

\* no classifier takes part
RouterInit ==
  /\ Init
  /\ config = [openaiApiKey |-> FALSE, hyperclovaApiKey |-> FALSE,
               useAIIntent |-> FALSE, autoStart |-> FALSE,
               useWhisper |-> FALSE]

RouterSpec == RouterInit /\ [][RouterNext]_vars


(***************************************************************************)
(* The recogniser's session: startListening, stopListening, onerror, onend *)
(* and the restarts that the handlers leave on timers.                     *)
(*                                                                         *)
(* recognition.recognizer is the browser's SpeechRecognition object: idle, *)
(* running, or stopping (stopped or failed, its end event still due);      *)
(* start() throws InvalidStateError unless it is idle.  recognition.retry  *)
(* counts the timers that are pending, by the handler that set them:       *)
(* "network" (2000 ms) and "other" (1000 ms) by handleSpeechError, "end"   *)
(* (100 ms) by handleSpeechEnd; a handler that would leave more than       *)
(* MaxRetries of a kind is not drawn.  Timers fire in any order.           *)
(* ev.branch is                                                            *)
(* the error type or the timer, and ev.effect tells whether the step       *)
(* called recognition.start() ("start", or "throw" when the call threw)    *)
(* or showed feedback.                                                     *)
(***************************************************************************)

\* speechSynthesis.speaking || speechSynthesis.pending: the synthesizer s
\* holds an utterance
SynthesizerBusy(s) ==
  \/ s.queue # <<>>
  \/ tts.stale > 0
  \/ tts.kind # "none" /\ ~tts.gap

\* startWhisperRecording() up to its await of getUserMedia, with the
\* recogniser's state as r: nothing while isListening
startWhisperRecordingCall(r) ==
  IF r.isListening THEN r ELSE [r EXCEPT !.microphone = @ + 1]

\* startListening() called with the recogniser's state as r and the
\* synthesizer and timers as s, by the public start() or by a timer (op
\* tells which): nothing while isSpeaking; polling while the browser
\* speaks; else startWhisperRecording() with useWhisper (571), whose
\* promise nobody holds, and without it the recogniser starts
startListeningCall(r, s, op) ==
  LET ok == r.recognizer = "idle"
  IN /\ IF tts.isSpeaking
        THEN /\ recognition' = r
             /\ synth' = s
             /\ ev' = [NoEvent EXCEPT !.op = op]
        ELSE IF SynthesizerBusy(s)
        THEN /\ s.polls < MaxPolls
             /\ recognition' = r
             /\ synth' = [s EXCEPT !.polls = @ + 1]
             /\ ev' = [NoEvent EXCEPT !.op = op, !.effect = "poll"]
        ELSE IF config.useWhisper
        THEN /\ ~r.isListening => r.microphone < MaxRecordings
             /\ recognition' = startWhisperRecordingCall(r)
             /\ synth' = s
             /\ ev' = [NoEvent EXCEPT !.op = op]
        ELSE IF ~r.isListening /\ ~r.recognitionActive
        THEN /\ recognition' =
                  [r EXCEPT
                     !.isListening = TRUE,
                     !.recognitionActive = TRUE,
                     !.recognizer = IF ok THEN "running" ELSE @]
             /\ synth' = s
             /\ ev' = [NoEvent EXCEPT !.op = op,
                                      !.effect = IF ok THEN "start" ELSE "throw"]
        ELSE /\ recognition' = r
             /\ synth' = s
             /\ ev' = [NoEvent EXCEPT !.op = op]
     /\ UNCHANGED <<config, intentCache, waitingForConfirmation, lastCommand,
                     lastCommandAge, actionHistory, calls, lateOpenAI, delivered,
                  aiSpeech, tts, router, assistant>>

startListening == startListeningCall(recognition, synth, "startListening")

\* the timer of 564 fires
PollTimer ==
  /\ synth.polls > 0
  /\ startListeningCall(recognition, [synth EXCEPT !.polls = @ - 1], "poll")

\* ensureContinuousListening(): recognition.start() whatever
\* recognitionActive is, and what it throws is swallowed
ensureContinuousListening ==
  LET ok == recognition.recognizer = "idle"
      starts == recognition.isListening /\ ~tts.isSpeaking
  IN /\ recognition' = IF starts /\ ok
                       THEN [recognition EXCEPT !.recognizer = "running"]
                       ELSE recognition
     /\ ev' = [NoEvent EXCEPT
                 !.op = "ensureContinuousListening",
                 !.effect = IF ~starts THEN "none"
                            ELSE IF ok THEN "start" ELSE "throw"]
     /\ UNCHANGED <<config, intentCache, waitingForConfirmation, lastCommand,
                    lastCommandAge, actionHistory, calls, lateOpenAI,
                    delivered, aiSpeech, tts, router, assistant, synth>>

\* stopListening(): the flags are reset first (588-589).  With useWhisper
\* and a recorder it calls stopWhisperRecording(), which finds isListening
\* reset and rejects a promise that nobody holds (1831): the recorder is
\* not stopped and nothing is shown.  Else recognition.stop()
stopListening ==
  LET whisper == config.useWhisper /\ recognition.mediaRecorder # "none"
  IN
  /\ recognition' =
       [recognition EXCEPT
          !.isListening = FALSE,
          !.recognitionActive = FALSE,
          !.recognizer = IF ~whisper /\ @ = "running" THEN "stopping" ELSE @]
  /\ ev' = [NoEvent EXCEPT !.op = "stopListening",
                           !.effect = IF whisper THEN "none" ELSE "feedback"]
  /\ UNCHANGED <<config, intentCache, waitingForConfirmation, lastCommand,
                  lastCommandAge, actionHistory, calls, lateOpenAI, delivered,
                  aiSpeech, tts, router, assistant, synth>>

\* the same, with the microphone and permission errors treated as the
\* network error is
handleSpeechErrorRetryAll(errorType) ==
  /\ recognition.recognizer = "running"
  /\ errorType \in {"network", "audio-capture", "not-allowed"}
       => recognition.retry.network < MaxRetries
  /\ errorType \notin {"network", "audio-capture", "not-allowed", "aborted"}
       => recognition.retry.other < MaxRetries
  /\ recognition' =
       [recognition EXCEPT
          !.recognizer = "stopping",
          !.retry = IF errorType \in {"network", "audio-capture", "not-allowed"}
                    THEN [@ EXCEPT !.network = @ + 1]
                    ELSE IF errorType = "aborted" THEN @
                    ELSE [@ EXCEPT !.other = @ + 1]]
  /\ ev' = [NoEvent EXCEPT
              !.op = "onerror", !.branch = errorType,
              !.effect = IF errorType \in {"network", "audio-capture", "not-allowed"}
                         THEN "feedback" ELSE "none"]
  /\ UNCHANGED <<config, intentCache, waitingForConfirmation, lastCommand,
                  lastCommandAge, actionHistory, calls, lateOpenAI, delivered,
                  aiSpeech, tts, router, assistant, synth>>

\* recognition.onerror: the recogniser, which was running, reports
\* errorType and stops
handleSpeechError(errorType) ==
  /\ recognition.recognizer = "running"
  /\ errorType = "network" => recognition.retry.network < MaxRetries
  /\ errorType \notin {"network", "audio-capture", "not-allowed", "aborted"}
       => recognition.retry.other < MaxRetries
  /\ recognition' =
       [recognition EXCEPT
          !.recognizer = "stopping",
          !.isListening = IF errorType \in {"audio-capture", "not-allowed"}
                          THEN FALSE ELSE @,
          !.retry = IF errorType = "network" THEN [@ EXCEPT !.network = @ + 1]
                    ELSE IF errorType \in {"audio-capture", "not-allowed", "aborted"}
                    THEN @
                    ELSE [@ EXCEPT !.other = @ + 1]]
  /\ ev' = [NoEvent EXCEPT
              !.op = "onerror", !.branch = errorType,
              !.effect = IF errorType \in {"network", "audio-capture", "not-allowed"}
                         THEN "feedback" ELSE "none"]
  /\ UNCHANGED <<config, intentCache, waitingForConfirmation, lastCommand,
                  lastCommandAge, actionHistory, calls, lateOpenAI, delivered,
                  aiSpeech, tts, router, assistant, synth>>

\* recognition.onend
handleSpeechEnd ==
  /\ recognition.recognizer = "stopping"
  /\ (recognition.isListening /\ ~tts.isSpeaking)
       => recognition.retry.end < MaxRetries
  /\ recognition' =
       [recognition EXCEPT
          !.recognizer = "idle",
          !.recognitionActive = FALSE,
          !.retry = IF recognition.isListening /\ ~tts.isSpeaking
                    THEN [@ EXCEPT !.end = @ + 1] ELSE @]
  /\ ev' = [NoEvent EXCEPT !.op = "onend"]
  /\ UNCHANGED <<config, intentCache, waitingForConfirmation, lastCommand,
                  lastCommandAge, actionHistory, calls, lateOpenAI, delivered,
                  aiSpeech, tts, router, assistant, synth>>

\* a pending timer fires: the callbacks of setTimeout in handleSpeechError
\* (1468-1470, 1485-1496) and handleSpeechEnd (1507-1529).  The timer of
\* handleSpeechEnd whose start() throws leaves the timer of 1517, whose
\* callback is that of 1485
RetryTimer(timer) ==
  LET ok == recognition.recognizer = "idle"
      left == [recognition.retry EXCEPT ![timer] = @ - 1]
      calls_start == IF timer = "network" THEN recognition.isListening
                     ELSE recognition.isListening /\ ~recognition.recognitionActive
  IN /\ recognition.retry[timer] > 0
     /\ (timer = "end" /\ calls_start /\ ~ok)
          => recognition.retry.other < MaxRetries
     /\ recognition' =
          IF ~calls_start THEN [recognition EXCEPT !.retry = left]
          ELSE [recognition EXCEPT
                  !.recognizer = IF ok THEN "running" ELSE @,
                  !.recognitionActive = IF timer = "network" THEN @ ELSE ok,
                  !.retry = IF timer = "end" /\ ~ok
                            THEN [left EXCEPT !.other = @ + 1]
                            ELSE left]
     /\ ev' = [NoEvent EXCEPT
                 !.op = "timer", !.branch = timer,
                 !.effect = IF ~calls_start THEN "none"
                            ELSE IF ok THEN "start" ELSE "throw"]
     /\ UNCHANGED <<config, intentCache, waitingForConfirmation, lastCommand,
                     lastCommandAge, actionHistory, calls, lateOpenAI, delivered,
                  aiSpeech, tts, router, assistant, synth>>

ErrorNext ==
  \/ startListening
  \/ stopListening
  \/ ensureContinuousListening
  \/ \E errorType \in {"network", "audio-capture", "not-allowed", "aborted",
                       "no-speech"} : handleSpeechError(errorType)
  \/ handleSpeechEnd
  \/ \E timer \in {"network", "other", "end"} : RetryTimer(timer)

ErrorSpec == Init /\ [][ErrorNext]_vars

(***************************************************************************)
(* Speech output with the synthesizer behind it: the utterances that       *)
(* speechSynthesis holds, their end and error events, the safety timeout   *)
(* of fallbackToSpeechSynthesis and the loop of speakSentencesSmooth.      *)
(* Here tts holds isSpeaking alone: the utterances are in synth.queue     *)
(* and the sentences still to be spoken in synth.loops.  An utterance may  *)
(* stay in the queue for ever: the synthesizer need not dispatch any       *)
(* event.                                                                  *)
(***************************************************************************)

\* speechSynthesis.cancel(): the queue is emptied, and the error event of
\* each utterance removed is dispatched later
cancel(s) ==
  [s EXCEPT !.queue = <<>>,
            !.cancelled = @ \cup {s.queue[i] : i \in DOMAIN s.queue}]

\* speak(text) with the synthesizer: speak's guard and markAISpeechActive,
\* the cancel of 389-391, and fallbackToSpeechSynthesis, which hands a text
\* of several sentences to speakSentencesSmooth and a single one to
\* speechSynthesis itself, with its safety timeout
SpeakText(text) ==
  LET out == speak(aiSpeech, tts, text)
      id == synth.next
      cleared == IF synth.currentUtterance # 0 THEN cancel(synth) ELSE synth
  IN /\ synth.next <= MaxSpeakCalls
     /\ aiSpeech' = out.aiSpeech
     /\ tts' = [Silent EXCEPT !.isSpeaking = TRUE]
     /\ synth' =
          IF tts.isSpeaking THEN synth
          ELSE IF out.tts.kind = "sentences"
          THEN [cleared EXCEPT
                  !.next = id + 1,
                  !.speakingFor = 0,
                  !.loops = @ \cup {[id |-> id, left |-> out.tts.left,
                                     gap |-> FALSE]},
                  !.queue = Append(@, [id |-> id, kind |-> "sentence"])]
          ELSE [cleared EXCEPT
                  !.next = id + 1,
                  !.speakingFor = 0,
                  !.safety = @ \cup {[id |-> id, left |-> SafetyTimeoutMs]},
                  !.currentUtterance = id,
                  !.queue = Append(@, [id |-> id, kind |-> "single"])]
     /\ ev' = [NoEvent EXCEPT !.op = "say", !.said = text,
                              !.executed = ~tts.isSpeaking]
     /\ UNCHANGED <<config, intentCache, waitingForConfirmation, lastCommand,
                    lastCommandAge, actionHistory, calls, lateOpenAI,
                    delivered, router, assistant, recognition>>

\* stopSpeaking()
stopSpeaking ==
  /\ synth' = [cancel(synth) EXCEPT !.currentUtterance = 0]
  /\ tts' = [tts EXCEPT !.isSpeaking = FALSE]
  /\ ev' = [NoEvent EXCEPT !.op = "stopSpeaking"]
  /\ UNCHANGED <<config, intentCache, waitingForConfirmation, lastCommand,
                 lastCommandAge, actionHistory, calls, lateOpenAI, delivered,
                 aiSpeech, router, assistant, recognition>>

\* the loop of speakSentencesSmooth goes on after the promise of a sentence
\* has resolved: the next sentence is handed to the synthesizer, or the
\* loop is over and isSpeaking is reset (1698)
LoopContinues(s, loop) ==
  IF loop.left > 1
  THEN /\ synth' = [s EXCEPT
                      !.loops = (@ \ {loop})
                                  \cup {[loop EXCEPT !.left = @ - 1,
                                                     !.gap = FALSE]},
                      !.queue = Append(@, [id |-> loop.id,
                                           kind |-> "sentence"])]
       /\ tts' = tts
  ELSE /\ synth' = [s EXCEPT !.loops = @ \ {loop}]
       /\ tts' = [tts EXCEPT !.isSpeaking = FALSE]

\* restartContinuousListening() with the recogniser's state as r: the
\* timer of 1758 is set, with autoStart only
restartContinuousListening(r) ==
  IF config.autoStart THEN [r EXCEPT !.retry.restart = @ + 1] ELSE r

\* speakSentences and speakSentencesWithRestart after their loop (1730,
\* 1747): isSpeaking is reset and restartContinuousListening is called, by
\* speakSentencesWithRestart if wasListening or autoStart
SentencesReturn(s, loop) ==
  /\ config.autoStart => recognition.retry.restart < MaxRestarts
  /\ synth' = [s EXCEPT !.sentences = @ \ {loop}]
  /\ tts' = [tts EXCEPT !.isSpeaking = FALSE]
  /\ recognition' =
       IF \/ loop.method = "speakSentences"
          \/ loop.wasListening
          \/ config.autoStart
       THEN restartContinuousListening(recognition)
       ELSE recognition

\* the promise of speakSingleSentence has resolved for the call loop: the
\* timer of 1726 or 1743 is set when sentences are left, else the loop is
\* over
SentenceResolved(s, loop) ==
  IF loop.left > 1
  THEN /\ synth' = [s EXCEPT
                      !.sentences = (@ \ {loop})
                                      \cup {[loop EXCEPT !.gap = TRUE]}]
       /\ tts' = tts
       /\ recognition' = recognition
  ELSE SentencesReturn(s, loop)

\* utterance.onend and utterance.onerror (how) of the utterance u, with the
\* synthesizer as s.  Those of fallbackToSpeechSynthesis (481-500) clear
\* their own safety timeout, reset isSpeaking and currentUtterance and call
\* markAISpeechComplete; those of speakSentencesSmooth (1684-1692) resolve
\* the promise the loop waits for, onend after a gap; those of
\* speakSingleSentence (1786-1787) resolve its promise, which a call of
\* speakSentences or speakSentencesWithRestart may wait for
UtteranceHandler(u, how, s) ==
  /\ IF u.kind = "single"
     THEN /\ synth' = [s EXCEPT !.safety = {t \in @ : t.id # u.id},
                                !.currentUtterance = 0]
          /\ tts' = [tts EXCEPT !.isSpeaking = FALSE]
          /\ aiSpeech' = markAISpeechComplete(aiSpeech)
          /\ recognition' = recognition
     ELSE IF u.kind = "sentence"
     THEN LET loop == CHOOSE l \in s.loops : l.id = u.id
          IN /\ IF how = "onend"
                THEN /\ synth' = [s EXCEPT
                                    !.loops = (@ \ {loop})
                                       \cup {[loop EXCEPT !.gap = TRUE]}]
                     /\ tts' = tts
                ELSE LoopContinues(s, loop)
             /\ aiSpeech' = aiSpeech
             /\ recognition' = recognition
     ELSE /\ IF \E l \in s.sentences : l.id = u.id
             THEN SentenceResolved(s, CHOOSE l \in s.sentences : l.id = u.id)
             ELSE /\ synth' = s
                  /\ tts' = tts
                  /\ recognition' = recognition
          /\ aiSpeech' = aiSpeech
  /\ ev' = [NoEvent EXCEPT !.op = how, !.branch = u.kind, !.utterance = u.id,
                           !.executed = TRUE]
  /\ UNCHANGED <<config, intentCache, waitingForConfirmation, lastCommand,
                 lastCommandAge, actionHistory, calls, lateOpenAI, delivered,
                 router, assistant>>

\* the utterance being spoken ends or fails
UtteranceEnds(how) ==
  /\ synth.queue # <<>>
  /\ UtteranceHandler(Head(synth.queue), how,
                      [synth EXCEPT !.queue = Tail(@)])

\* the error event of an utterance that cancel removed is dispatched
CancelledUtteranceFails(u) ==
  /\ u \in synth.cancelled
  /\ UtteranceHandler(u, "onerror", [synth EXCEPT !.cancelled = @ \ {u}])

\* the 50 ms after a sentence are over (1686)
SentenceGapOver(loop) ==
  /\ loop \in synth.loops
  /\ loop.gap
  /\ LoopContinues(synth, loop)
  /\ ev' = [NoEvent EXCEPT !.op = "gap", !.utterance = loop.id]
  /\ UNCHANGED <<config, intentCache, waitingForConfirmation, lastCommand,
                 lastCommandAge, actionHistory, calls, lateOpenAI, delivered,
                 aiSpeech, router, assistant, recognition>>

\* the safety timeout of the speak call timer.id fires (427-442)
SafetyTimeout(timer) ==
  LET ok == recognition.recognizer = "idle"
  IN /\ timer \in synth.safety
     /\ timer.left = 0
     /\ synth' = [synth EXCEPT !.safety = @ \ {timer}, !.currentUtterance = 0]
     /\ tts' = [tts EXCEPT !.isSpeaking = FALSE]
     /\ recognition' =
          [recognition EXCEPT
             !.recognitionActive = recognition.isListening /\ ok,
             !.recognizer = IF recognition.isListening /\ ok
                            THEN "running" ELSE @]
     /\ ev' = [NoEvent EXCEPT
                 !.op = "safety", !.utterance = timer.id,
                 !.effect = IF ~recognition.isListening THEN "none"
                            ELSE IF ok THEN "start" ELSE "throw"]
     /\ UNCHANGED <<config, intentCache, waitingForConfirmation, lastCommand,
                    lastCommandAge, actionHistory, calls, lateOpenAI,
                    delivered, aiSpeech, router, assistant>>

\* the time to the next safety timeout, SpeechTickMs at most
SpeechStep(s) ==
  LET lefts == {t.left : t \in s.safety} \cup {SpeechTickMs}
  IN CHOOSE d \in lefts : \A e \in lefts : d <= e

\* time passes for the speech output, unless a safety timeout is due
SpeechTick ==
  LET d == SpeechStep(synth)
  IN /\ d > 0
     /\ synth' = [synth EXCEPT
                    !.safety = {[t EXCEPT !.left = @ - d] : t \in @},
                    !.speakingFor =
                       IF tts.isSpeaking
                       THEN Min(@ + d, SafetyTimeoutMs + SpeechTickMs)
                       ELSE 0]
     /\ aiSpeech' = [aiSpeech EXCEPT !.age = Min(@ + d, EchoGuardMs + TickMs)]
     /\ lastCommandAge' = Min(lastCommandAge + d, DuplicateWindowMs)
     /\ ev' = [NoEvent EXCEPT !.op = "tick"]
     /\ UNCHANGED <<config, intentCache, waitingForConfirmation, lastCommand,
                    actionHistory, calls, lateOpenAI, delivered, tts, router,
                    assistant, recognition>>

\* 장바구니를 열었습니다, one sentence, and 잘 들리지 않습니다. 다시 말씀해
\* 주세요, two
SpeechNext ==
  \/ \E text \in SpokenTexts \ {U_Yes, U_OK} : SpeakText(text)
  \/ stopSpeaking
  \/ \E how \in {"onend", "onerror"} : UtteranceEnds(how)
  \/ \E u \in synth.cancelled : CancelledUtteranceFails(u)
  \/ \E loop \in synth.loops : SentenceGapOver(loop)
  \/ \E timer \in synth.safety : SafetyTimeout(timer)
  \/ SpeechTick

SpeechSpec == Init /\ [][SpeechNext]_vars

(***************************************************************************)
(* Listening and speaking together.                                        *)
(***************************************************************************)

\* recognition.continuous is false (100): the recogniser ends a session by
\* itself, after a result or after silence, and its end event follows
SessionOver ==
  /\ recognition.recognizer = "running"
  /\ recognition' = [recognition EXCEPT !.recognizer = "stopping"]
  /\ ev' = [NoEvent EXCEPT !.op = "over"]
  /\ UNCHANGED <<config, intentCache, waitingForConfirmation, lastCommand,
                 lastCommandAge, actionHistory, calls, lateOpenAI, delivered,
                 aiSpeech, tts, router, assistant, synth>>

\* what the page and the user do: start(), stop(), say(text), stopSpeech(),
\* and a recogniser that fails
ListenCalls ==
  \/ startListening
  \/ stopListening
  \/ ensureContinuousListening
  \/ \E errorType \in {"not-allowed", "aborted", "no-speech"} :
       handleSpeechError(errorType)
  \/ \E text \in SpokenTexts \ {U_Yes, U_OK} : SpeakText(text)
  \/ stopSpeaking

\* what the browser does by itself: sessions and utterances end, events are
\* dispatched, timers fire and time passes
ListenEvents ==
  \/ SessionOver
  \/ handleSpeechEnd
  \/ \E timer \in {"other", "end"} : RetryTimer(timer)
  \/ PollTimer
  \/ UtteranceEnds("onend")
  \/ \E u \in synth.cancelled : CancelledUtteranceFails(u)
  \/ \E loop \in synth.loops : SentenceGapOver(loop)
  \/ \E timer \in synth.safety : SafetyTimeout(timer)
  \/ SpeechTick

ListenNext == ListenCalls \/ ListenEvents

\* no classifier is configured: none takes part
ListenInit ==
  /\ Init
  /\ config = [openaiApiKey |-> FALSE, hyperclovaApiKey |-> FALSE,
               useAIIntent |-> FALSE, autoStart |-> FALSE,
               useWhisper |-> FALSE]

ListenSpec == ListenInit /\ [][ListenNext]_vars

\* the same with a browser that goes on working: each of its steps that
\* stays possible is taken in the end
FairListenSpec ==
  /\ ListenSpec
  /\ WF_vars(SessionOver)
  /\ WF_vars(handleSpeechEnd)
  /\ WF_vars(\E timer \in {"other", "end"} : RetryTimer(timer))
  /\ WF_vars(PollTimer)
  /\ WF_vars(UtteranceEnds("onend"))
  /\ WF_vars(\E u \in synth.cancelled : CancelledUtteranceFails(u))
  /\ WF_vars(\E loop \in synth.loops : SentenceGapOver(loop))
  /\ WF_vars(\E timer \in synth.safety : SafetyTimeout(timer))
  /\ WF_vars(SpeechTick)

(***************************************************************************)
(* The sentence players that the instance carries beside speak():          *)
(* speakSentences, speakSentencesWithRestart and speakSingleSentence, and  *)
(* restartContinuousListening, which they end with.  None of them asks     *)
(* speak's guard, sets the echo guard or a safety timeout.  A call runs up *)
(* to its first await in one step.                                         *)
(***************************************************************************)

\* speakSentences(sentences) and speakSentencesWithRestart(sentences,
\* wasListening), of as many sentences as sentences says: isSpeaking is
\* set, and the first sentence is handed to speakSingleSentence; without a
\* sentence the call returns at once
SpeakSentencesCall(method, sentences, wasListening) ==
  LET id == synth.next
      loop == [id |-> id, method |-> method, wasListening |-> wasListening,
               left |-> sentences, gap |-> FALSE]
  IN /\ synth.next <= MaxSpeakCalls
     /\ IF sentences = 0
        THEN SentencesReturn(synth, loop)
        ELSE /\ synth' = [synth EXCEPT
                            !.next = id + 1,
                            !.speakingFor = 0,
                            !.sentences = @ \cup {loop},
                            !.queue = Append(@, [id |-> id, kind |-> "plain"])]
             /\ tts' = [tts EXCEPT !.isSpeaking = TRUE]
             /\ recognition' = recognition
     /\ ev' = [NoEvent EXCEPT !.op = method, !.utterance = id,
                              !.executed = TRUE]
     /\ UNCHANGED <<config, intentCache, waitingForConfirmation, lastCommand,
                    lastCommandAge, actionHistory, calls, lateOpenAI,
                    delivered, aiSpeech, router, assistant>>

speakSentences(sentences) ==
  SpeakSentencesCall("speakSentences", sentences, FALSE)

speakSentencesWithRestart(sentences, wasListening) ==
  SpeakSentencesCall("speakSentencesWithRestart", sentences, wasListening)

\* speakSingleSentence(text), called on the instance: the utterance is
\* handed to the synthesizer, and nothing waits for its promise
speakSingleSentence ==
  /\ synth.next <= MaxSpeakCalls
  /\ synth' = [synth EXCEPT
                 !.next = @ + 1,
                 !.queue = Append(@, [id |-> synth.next, kind |-> "plain"])]
  /\ ev' = [NoEvent EXCEPT !.op = "speakSingleSentence",
                           !.utterance = synth.next, !.executed = TRUE]
  /\ UNCHANGED <<config, intentCache, waitingForConfirmation, lastCommand,
                 lastCommandAge, actionHistory, calls, lateOpenAI, delivered,
                 aiSpeech, tts, router, assistant, recognition>>

\* the 300 ms after a sentence are over (1726, 1743): the loop leaves when
\* isSpeaking was reset meanwhile (1720, 1738), else the next sentence is
\* handed to speakSingleSentence
SentencePauseOver(loop) ==
  /\ loop \in synth.sentences
  /\ loop.gap
  /\ IF ~tts.isSpeaking
     THEN SentencesReturn(synth, loop)
     ELSE /\ synth' = [synth EXCEPT
                         !.sentences = (@ \ {loop})
                                         \cup {[loop EXCEPT !.left = @ - 1,
                                                            !.gap = FALSE]},
                         !.queue = Append(@, [id |-> loop.id,
                                              kind |-> "plain"])]
          /\ tts' = tts
          /\ recognition' = recognition
  /\ ev' = [NoEvent EXCEPT !.op = "pause", !.utterance = loop.id]
  /\ UNCHANGED <<config, intentCache, waitingForConfirmation, lastCommand,
                 lastCommandAge, actionHistory, calls, lateOpenAI, delivered,
                 aiSpeech, router, assistant>>

\* a timer of restartContinuousListening fires.  That of 1758 ("restart",
\* 500 ms) sets isListening and calls recognition.start(), and sets the
\* timer of 1766 when the call throws; that of 1766 ("again", 1500 ms) does
\* the same with autoStart, and what its start() throws is not caught
RestartTimer(timer) ==
  LET ok == recognition.recognizer = "idle"
      left == [recognition.retry EXCEPT ![timer] = @ - 1]
      calls_start == timer = "restart" \/ config.autoStart
  IN /\ recognition.retry[timer] > 0
     /\ (timer = "restart" /\ ~ok) => recognition.retry.again < MaxRestarts
     /\ recognition' =
          IF ~calls_start THEN [recognition EXCEPT !.retry = left]
          ELSE [recognition EXCEPT
                  !.isListening = TRUE,
                  !.recognizer = IF ok THEN "running" ELSE @,
                  !.retry = IF timer = "restart" /\ ~ok
                            THEN [left EXCEPT !.again = @ + 1]
                            ELSE left]
     /\ ev' = [NoEvent EXCEPT
                 !.op = "timer", !.branch = timer,
                 !.effect = IF ~calls_start THEN "none"
                            ELSE IF ok THEN "start" ELSE "throw"]
     /\ UNCHANGED <<config, intentCache, waitingForConfirmation, lastCommand,
                    lastCommandAge, actionHistory, calls, lateOpenAI,
                    delivered, aiSpeech, tts, router, assistant, synth>>

\* the page plays sentences and stops them, with and without autoStart;
\* the recogniser's sessions end and are stopped
SentencesNext ==
  \/ \E sentences \in 0..MaxSentences : speakSentences(sentences)
  \/ \E sentences \in 0..MaxSentences, wasListening \in BOOLEAN :
       speakSentencesWithRestart(sentences, wasListening)
  \/ speakSingleSentence
  \/ stopSpeaking
  \/ \E how \in {"onend", "onerror"} : UtteranceEnds(how)
  \/ \E u \in synth.cancelled : CancelledUtteranceFails(u)
  \/ \E loop \in synth.sentences : SentencePauseOver(loop)
  \/ \E timer \in {"restart", "again"} : RestartTimer(timer)
  \/ stopListening
  \/ SessionOver
  \/ handleSpeechEnd
  \/ \E timer \in {"other", "end"} : RetryTimer(timer)

\* no classifier is configured
SentencesInit ==
  /\ Constructed(DuplicateWindowMs)
  /\ ~config.openaiApiKey /\ ~config.hyperclovaApiKey /\ ~config.useAIIntent
  /\ ~config.useWhisper

SentencesSpec == SentencesInit /\ [][SentencesNext]_vars

(***************************************************************************)
(* The methods that nothing in the file calls, called on the instance that *)
(* window.AIAssistant.getInstance() returns: isDuplicateCommand,           *)
(* executeCommand, handleLowConfidenceResult, clearCommandHistoryAfterTTS. *)
(* recognition.timers holds the timers that the last two set, oldest       *)
(* first; a call that would leave more than MaxTimers pending is not       *)
(* drawn, nor a call of executeCommand once actionHistory holds            *)
(* MaxExecuted entries.                                                    *)
(***************************************************************************)

\* isDuplicateCommand(command): ev.gate is "duplicate" where it returns true
isDuplicateCommand(command) ==
  LET duplicate == lastCommand = command /\ lastCommandAge < CommandWindowMs
  IN /\ lastCommand' = IF duplicate THEN lastCommand ELSE command
     /\ lastCommandAge' = IF duplicate THEN lastCommandAge ELSE 0
     /\ ev' = [NoEvent EXCEPT !.op = "isDuplicateCommand", !.heard = command,
                              !.gate = IF duplicate THEN "duplicate" ELSE "new"]
     /\ UNCHANGED <<config, intentCache, waitingForConfirmation, actionHistory,
                    calls, lateOpenAI, delivered, aiSpeech, tts, router,
                    recognition, assistant, synth>>

\* what executeCommand may find on the page: DomStates, with or without an
\* element that one of openMenu's selectors matches
MenuPages ==
  {[found |-> p.found, clickable |-> p.clickable, search |-> p.search,
    menu |-> m] : p \in DomStates, m \in BOOLEAN}

\* the pages told apart by what a command asks of the page
PagesOf(transcript) ==
  IF Memo(matchedCommandOf, transcript, matchCommand(transcript)) = "menu"
  THEN {p \in MenuPages : ~p.found /\ ~p.clickable /\ ~p.search}
  ELSE {p \in MenuPages : ~p.menu}

\* executeCommand(transcript), called on the assistant
ExecuteCommand(transcript) ==
  \E dom \in PagesOf(transcript) :
    LET run == executeCommand(actionHistory, transcript, dom)
    IN /\ Len(actionHistory) < MaxExecuted
       /\ actionHistory' = run.history
       /\ ev' = [NoEvent EXCEPT !.op = "executeCommand", !.heard = transcript,
                                !.before = actionHistory,
                                !.executed = TRUE,
                                !.effect = run.effect,
                                !.said = run.said]
       /\ Speaks(aiSpeech)
       /\ UNCHANGED <<config, intentCache, waitingForConfirmation, lastCommand,
                      lastCommandAge, calls, lateOpenAI, delivered, router,
                      recognition, assistant, synth>>

\* adjustRecognitionSettings, recognitionAttempts being attempt
adjustRecognitionSettings(settings, attempt) ==
  IF attempt = 1
  THEN [settings EXCEPT !.lang = "ko-KR", !.noiseLevel = "high"]
  ELSE IF attempt = 2
  THEN [settings EXCEPT !.lang = "ko", !.maxAlternatives = 1]
  ELSE settings

\* handleLowConfidenceResult(transcript, confidence), which reads neither
\* argument: up to the third call in a row the settings are adjusted, the
\* user is asked to repeat and a timer is set; the third call gives up
handleLowConfidenceResult ==
  LET attempts == recognition.recognitionAttempts + 1
      again == attempts < MaxAttempts
  IN /\ again => Len(recognition.timers) < MaxTimers
     /\ recognition' =
          IF again
          THEN [recognition EXCEPT
                  !.recognitionAttempts = attempts,
                  !.settings = adjustRecognitionSettings(@, attempts),
                  !.timers = Append(@, [kind |-> "low",
                                        left |-> LowConfidenceRetryMs])]
          ELSE [recognition EXCEPT !.recognitionAttempts = 0]
     /\ ev' = [NoEvent EXCEPT
                 !.op = "handleLowConfidenceResult",
                 !.said = IF again THEN HardToHear ELSE UseButtons]
     /\ Speaks(aiSpeech)
     /\ UNCHANGED <<config, intentCache, waitingForConfirmation, lastCommand,
                    lastCommandAge, actionHistory, calls, lateOpenAI,
                    delivered, router, assistant, synth>>

\* clearCommandHistoryAfterTTS(): the timer is set
clearCommandHistoryAfterTTS ==
  /\ Len(recognition.timers) < MaxTimers
  /\ recognition' =
       [recognition EXCEPT
          !.timers = Append(@, [kind |-> "clear", left |-> ClearCommandMs])]
  /\ ev' = [NoEvent EXCEPT !.op = "clearCommandHistoryAfterTTS"]
  /\ UNCHANGED <<config, intentCache, waitingForConfirmation, lastCommand,
                 lastCommandAge, actionHistory, calls, lateOpenAI, delivered,
                 aiSpeech, tts, router, assistant, synth>>

\* timers without the k-th
WithoutTimer(timers, k) ==
  SubSeq(timers, 1, k - 1) \o SubSeq(timers, k + 1, Len(timers))

\* the timer of handleLowConfidenceResult fires (1432-1434)
LowConfidenceTimer(k) ==
  LET rest == [recognition EXCEPT !.timers = WithoutTimer(@, k)]
  IN /\ k \in DOMAIN recognition.timers
     /\ recognition.timers[k] = [kind |-> "low", left |-> 0]
     /\ IF ~recognition.isListening
        THEN startListeningCall(rest, synth, "lowTimer")
        ELSE /\ recognition' = rest
             /\ ev' = [NoEvent EXCEPT !.op = "lowTimer"]
             /\ UNCHANGED <<config, intentCache, waitingForConfirmation,
                            lastCommand, lastCommandAge, actionHistory, calls,
                            lateOpenAI, delivered, aiSpeech, tts, router,
                            assistant, synth>>

\* the timer of clearCommandHistoryAfterTTS fires (527-533): lastCommandTime
\* is 0 again, longer ago than any window
ClearCommandTimer(k) ==
  /\ k \in DOMAIN recognition.timers
  /\ recognition.timers[k] = [kind |-> "clear", left |-> 0]
  /\ recognition' = [recognition EXCEPT !.timers = WithoutTimer(@, k)]
  /\ lastCommand' = IF recognition.isListening THEN <<>> ELSE lastCommand
  /\ lastCommandAge' = IF recognition.isListening THEN CommandWindowMs
                       ELSE lastCommandAge
  /\ ev' = [NoEvent EXCEPT
              !.op = "clearTimer",
              !.effect = IF recognition.isListening THEN "clear" ELSE "none"]
  /\ UNCHANGED <<config, intentCache, waitingForConfirmation, actionHistory,
                 calls, lateOpenAI, delivered, aiSpeech, tts, router,
                 assistant, synth>>

\* a command the recogniser is sure of
HeardDown == [alternatives |-> <<Alternative(U_Down, 51)>>, isFinal |-> TRUE]

\* the command window: isDuplicateCommand, the timer that clears
\* lastCommand, and the recognition results that pass the same fields
\* through the gate of handleEnhancedSpeechResult with its own window
CommandWindowNext ==
  \/ \E command \in {U_Down, U_OK} : isDuplicateCommand(command)
  \/ clearCommandHistoryAfterTTS
  \/ \E k \in 1..MaxTimers : ClearCommandTimer(k)
  \/ HandleSpeechResult(HeardDown, {1})
  \/ startListening
  \/ stopListening
  \/ UtteranceDone("onend")
  \/ ~tts.isSpeaking /\ Elapse(TickMs, CommandWindowMs)

\* no classifier is configured
InstanceInit ==
  /\ Constructed(CommandWindowMs)
  /\ config = [openaiApiKey |-> FALSE, hyperclovaApiKey |-> FALSE,
               useAIIntent |-> FALSE, autoStart |-> FALSE,
               useWhisper |-> FALSE]

CommandWindowSpec == InstanceInit /\ [][CommandWindowNext]_vars

\* commands executed and undone
ExecuteNext ==
  \/ \E transcript \in InstanceCommands : ExecuteCommand(transcript)
  \/ Undo
  \/ UtteranceDone("onend")
  \/ safetyTimeout
  \/ Elapse(TickMs, CommandWindowMs)

ExecuteSpec == InstanceInit /\ [][ExecuteNext]_vars

\* results the recogniser is not sure of, while the page starts and stops
\* listening; what handleLowConfidenceResult says is two sentences
LowConfidenceNext ==
  \/ handleLowConfidenceResult
  \/ \E k \in 1..MaxTimers : LowConfidenceTimer(k)
  \/ startListening
  \/ stopListening
  \/ UtteranceDone("onend")
  \/ GapOver
  \/ Elapse(TickMs, CommandWindowMs)

LowConfidenceSpec == InstanceInit /\ [][LowConfidenceNext]_vars
(***************************************************************************)
(* Recording for Whisper: startWhisperRecording, stopWhisperRecording and  *)
(* transcribeWithWhisper, which startListening and stopListening call with *)
(* useWhisper and which the page can call on the instance.  A call runs up *)
(* to its await in one step; the browser's answer to getUserMedia, the     *)
(* recorder's stop event and the answer to the transcription request are   *)
(* steps of their own.  recognition.mediaRecorder is this.mediaRecorder:   *)
(* none, recording, or inactive once stop() was called on it; a recorder   *)
(* that a new one has replaced goes on by itself, and its stop event, if   *)
(* due, still comes.  The calls, events and requests pending at a time are *)
(* bounded by MaxRecordings: a step that would go beyond is not drawn.     *)
(* this.onTranscriptReceived is left null.                                 *)
(***************************************************************************)

\* startWhisperRecording(), called by the page
startWhisperRecording ==
  /\ ~recognition.isListening => recognition.microphone < MaxRecordings
  /\ recognition' = startWhisperRecordingCall(recognition)
  /\ ev' = [NoEvent EXCEPT !.op = "startWhisperRecording"]
  /\ UNCHANGED <<config, intentCache, waitingForConfirmation, lastCommand,
                 lastCommandAge, actionHistory, calls, lateOpenAI, delivered,
                 aiSpeech, tts, router, assistant, synth>>

\* getUserMedia answers a startWhisperRecording call.  Granted, a new
\* MediaRecorder becomes this.mediaRecorder and records, and isListening is
\* set (1806-1821), whatever has been called since; refused, the promise of
\* startWhisperRecording is rejected (1823-1826)
MicrophoneAnswers(granted) ==
  /\ recognition.microphone > 0
  /\ recognition' =
       IF granted
       THEN [recognition EXCEPT !.microphone = @ - 1,
                                !.mediaRecorder = "recording",
                                !.isListening = TRUE]
       ELSE [recognition EXCEPT !.microphone = @ - 1]
  /\ ev' = [NoEvent EXCEPT !.op = "getUserMedia",
                           !.effect = IF granted THEN "record" ELSE "feedback",
                           !.threw = ~granted]
  /\ UNCHANGED <<config, intentCache, waitingForConfirmation, lastCommand,
                 lastCommandAge, actionHistory, calls, lateOpenAI, delivered,
                 aiSpeech, tts, router, assistant, synth>>

\* stopWhisperRecording(), called by the page: rejected without a recorder
\* or while isListening is false (1831-1834); else the recorder is stopped,
\* and its stop event is due.  On a recorder that is inactive already,
\* stop() throws InvalidStateError or does nothing, by the browser; no
\* second stop event comes
stopWhisperRecording ==
  LET refused == recognition.mediaRecorder = "none" \/ ~recognition.isListening
      stops == ~refused /\ recognition.mediaRecorder = "recording"
  IN /\ stops => recognition.stopEvents < MaxRecordings
     /\ recognition' =
          IF stops
          THEN [recognition EXCEPT !.mediaRecorder = "inactive",
                                   !.stopEvents = @ + 1]
          ELSE recognition
     /\ \E thrown \in IF refused \/ stops THEN {refused} ELSE BOOLEAN :
          ev' = [NoEvent EXCEPT !.op = "stopWhisperRecording",
                                !.effect = IF stops THEN "stop" ELSE "none",
                                !.threw = thrown]
     /\ UNCHANGED <<config, intentCache, waitingForConfirmation, lastCommand,
                    lastCommandAge, actionHistory, calls, lateOpenAI,
                    delivered, aiSpeech, tts, router, assistant, synth>>

\* the stop event of a recorder: mediaRecorder.onstop calls
\* transcribeWithWhisper, which throws without openaiApiKey (1869-1871), so
\* that isListening is reset (1853-1856), and with it sends the recording
RecorderStops ==
  /\ recognition.stopEvents > 0
  /\ config.openaiApiKey => recognition.transcribing < MaxRecordings
  /\ recognition' =
       IF config.openaiApiKey
       THEN [recognition EXCEPT !.stopEvents = @ - 1,
                                !.transcribing = @ + 1]
       ELSE [recognition EXCEPT !.stopEvents = @ - 1,
                                !.isListening = FALSE]
  /\ ev' = [NoEvent EXCEPT
              !.op = "onstop",
              !.effect = IF config.openaiApiKey THEN "fetch" ELSE "feedback",
              !.threw = ~config.openaiApiKey]
  /\ UNCHANGED <<config, intentCache, waitingForConfirmation, lastCommand,
                 lastCommandAge, actionHistory, calls, lateOpenAI, delivered,
                 aiSpeech, tts, router, assistant, synth>>

\* the texts that the transcription answers with: 아래로, OK, 취소, and
\* none (result.text || '')
WhisperTexts == {U_Down, U_OK, U_Cancel, <<>>}

\* the transcription request is answered.  With a text, isListening is
\* reset and processCommand(transcript) is called (1841-1850), past
\* handleEnhancedSpeechResult: no echo check, no gate, and lastCommand is
\* not set.  With an error status or none (1882-1884), isListening is reset
WhisperAnswers(answer, slots) ==
  /\ recognition.transcribing > 0
  /\ recognition' = [recognition EXCEPT !.transcribing = @ - 1,
                                        !.isListening = FALSE]
  /\ IF answer = Undefined
     THEN /\ ev' = [NoEvent EXCEPT !.op = "transcribed",
                                   !.effect = "feedback", !.threw = TRUE]
          /\ UNCHANGED <<waitingForConfirmation, intentCache, actionHistory,
                         calls, delivered>>
     ELSE processCommand(answer,
                         [NoEvent EXCEPT !.op = "transcribed",
                                         !.heard = answer,
                                         !.pending = waitingForConfirmation],
                         slots)
  /\ Speaks(aiSpeech)
  /\ UNCHANGED <<config, lastCommand, lastCommandAge, lateOpenAI, router,
                 assistant, synth>>

\* the page starts and stops listening and recording, with and without
\* useWhisper and a key; the microphone is granted or refused, recorders
\* stop, transcriptions answer, and what is said is played to its end
WhisperNext ==
  \/ startListening
  \/ stopListening
  \/ startWhisperRecording
  \/ stopWhisperRecording
  \/ \E granted \in BOOLEAN : MicrophoneAnswers(granted)
  \/ RecorderStops
  \/ \E answer \in WhisperTexts \cup {Undefined} : WhisperAnswers(answer, {1})
  \/ UtteranceDone("onend")

\* the pattern matcher alone resolves the commands
WhisperInit ==
  /\ Constructed(DuplicateWindowMs)
  /\ ~config.hyperclovaApiKey /\ ~config.useAIIntent

WhisperSpec == WhisperInit /\ [][WhisperNext]_vars

(***************************************************************************)
(* AIAssistant, the wrapper around the voice engine, the DOM analyzer and  *)
(* the command router.  initialize() runs up to its await of scanPage in   *)
(* one step and resumes in another; assistant.initializing counts the      *)
(* calls suspended in between, and assistant.registered the times the      *)
(* configured custom commands, here the one command 홈, were pushed onto    *)
(* the router's command list.  assistant.voiceEngine is the VoiceEngine's  *)
(* isListening and the browser's recogniser behind recognitionRef: idle,   *)
(* running, or stopping (stop() was called and its end event is due);      *)
(* start() throws InvalidStateError unless it is idle.  The browser has a  *)
(* recogniser.  With useWhisper and openaiApiKey the engine has a          *)
(* WhisperEngine in its place (recognitionRef is "none"), of which         *)
(* voiceEngine holds isRecording, mediaRecorder (none, recording, or       *)
(* inactive once stop() was called), the getUserMedia calls not yet        *)
(* answered, the stop events due and the transcription requests in flight, *)
(* each bounded by MaxRecordings.                                          *)
(* ev.branch is the public method called and ev.threw whether it threw or  *)
(* its promise was rejected.                                               *)
(***************************************************************************)

\* this.config.useWhisper && this.whisperEngine (voice-engine.ts 42-43,
\* 157, 174)
usesWhisperEngine == config.useWhisper /\ config.openaiApiKey

\* VoiceEngine.startListening() up to its await: nothing while
\* isListening; else isListening is set, and with a WhisperEngine
\* startRecording() asks for the microphone unless isRecording (38-48);
\* without one recognitionRef.start() is called, whose exception rejects
\* the promise and leaves isListening set
VoiceEngine_startListening(v) ==
  IF v.isListening THEN [voiceEngine |-> v, threw |-> FALSE]
  ELSE IF usesWhisperEngine
  THEN [voiceEngine |->
          [v EXCEPT !.isListening = TRUE,
                    !.microphone = IF v.isRecording THEN @ ELSE @ + 1],
        threw |-> FALSE]
  ELSE [voiceEngine |->
          [v EXCEPT !.isListening = TRUE,
                    !.recognitionRef = IF @ = "idle" THEN "running" ELSE @],
        threw |-> v.recognitionRef # "idle"]

\* VoiceEngine.stopListening() up to its await: nothing unless
\* isListening; else isListening is reset, and with a WhisperEngine
\* stopRecording() stops the recorder, whose stop event is due, or rejects
\* when nothing is recording (whisper-engine.ts 71-74), which is caught;
\* without one recognitionRef.stop()
VoiceEngine_stopListening(v) ==
  IF ~v.isListening THEN v
  ELSE IF usesWhisperEngine
  THEN IF v.mediaRecorder = "none" \/ ~v.isRecording
       THEN [v EXCEPT !.isListening = FALSE]
       ELSE [v EXCEPT !.isListening = FALSE,
                      !.mediaRecorder = "inactive",
                      !.isRecording = FALSE,
                      !.stopEvents = @ + 1]
  ELSE [v EXCEPT !.isListening = FALSE,
                 !.recognitionRef = IF @ = "running" THEN "stopping" ELSE @]

\* private ensureInitialized(): does it throw?
ensureInitialized(a) == ~a.isInitialized

\* initialize(), up to its await
AIAssistant_initialize ==
  /\ assistant.initializing < MaxInitializeCalls
  /\ assistant.registered < MaxInitializeCalls + 1
  /\ assistant' =
       IF assistant.isInitialized THEN assistant
       ELSE [assistant EXCEPT !.registered = @ + 1, !.initializing = @ + 1]
  /\ router' =
       IF assistant.isInitialized THEN router
       ELSE [router EXCEPT !.commands = Append(@, HomeCommand)]
  /\ ev' = [NoEvent EXCEPT !.op = "initialize",
                           !.executed = ~assistant.isInitialized]
  /\ UNCHANGED <<config, intentCache, waitingForConfirmation, lastCommand,
                 lastCommandAge, actionHistory, calls, lateOpenAI, delivered,
                 aiSpeech, tts, recognition, synth>>

\* scanPage has resolved and an initialize() call goes on after its await
AIAssistant_initialized ==
  /\ assistant.initializing > 0
  /\ assistant' = [assistant EXCEPT !.isInitialized = TRUE,
                                    !.initializing = @ - 1]
  /\ ev' = [NoEvent EXCEPT !.op = "initialized"]
  /\ UNCHANGED <<config, intentCache, waitingForConfirmation, lastCommand,
                 lastCommandAge, actionHistory, calls, lateOpenAI, delivered,
                 aiSpeech, tts, router, recognition, synth>>

\* startListening, speak, scanPage and findElement of the public API:
\* ensureInitialized() first, and startListening goes on to the voice
\* engine's
AIAssistant_call(method) ==
  LET throws == ensureInitialized(assistant)
      started == VoiceEngine_startListening(assistant.voiceEngine)
      starts == method = "startListening" /\ ~throws
  IN /\ starts => started.voiceEngine.microphone <= MaxRecordings
     /\ assistant' = IF starts
                     THEN [assistant EXCEPT !.voiceEngine = started.voiceEngine]
                     ELSE assistant
     /\ ev' = [NoEvent EXCEPT !.op = "api", !.branch = method,
                              !.threw = throws \/ (starts /\ started.threw)]
     /\ UNCHANGED <<config, intentCache, waitingForConfirmation, lastCommand,
                    lastCommandAge, actionHistory, calls, lateOpenAI,
                    delivered, aiSpeech, tts, router, recognition, synth>>

\* stopListening() of the public API, which does not ask for initialize()
AIAssistant_stopListening ==
  /\ VoiceEngine_stopListening(assistant.voiceEngine).stopEvents
       <= MaxRecordings
  /\ assistant' = [assistant EXCEPT
                     !.voiceEngine = VoiceEngine_stopListening(@)]
  /\ ev' = [NoEvent EXCEPT !.op = "api", !.branch = "stopListening"]
  /\ UNCHANGED <<config, intentCache, waitingForConfirmation, lastCommand,
                 lastCommandAge, actionHistory, calls, lateOpenAI, delivered,
                 aiSpeech, tts, router, recognition, synth>>

\* the recogniser's session is over: recognitionRef.continuous is false
\* (55), so that a session ends by itself, and one that was stopped ends.
\* The voice engine has no handler for the end event: isListening stays
VoiceEngine_sessionEnds ==
  /\ assistant.voiceEngine.recognitionRef \in {"running", "stopping"}
  /\ assistant' = [assistant EXCEPT !.voiceEngine.recognitionRef = "idle"]
  /\ ev' = [NoEvent EXCEPT !.op = "sessionEnds"]
  /\ UNCHANGED <<config, intentCache, waitingForConfirmation, lastCommand,
                 lastCommandAge, actionHistory, calls, lateOpenAI, delivered,
                 aiSpeech, tts, router, recognition, synth>>

\* getUserMedia answers a startRecording() call of the WhisperEngine.
\* Granted, a new MediaRecorder records and isRecording is set
\* (whisper-engine.ts 50-63), and startListening resolves; refused,
\* startListening resets isListening and its promise is rejected
\* (voice-engine.ts 160-163)
WhisperEngine_microphoneAnswers(granted) ==
  /\ assistant.voiceEngine.microphone > 0
  /\ assistant' =
       IF granted
       THEN [assistant EXCEPT !.voiceEngine.microphone = @ - 1,
                              !.voiceEngine.mediaRecorder = "recording",
                              !.voiceEngine.isRecording = TRUE]
       ELSE [assistant EXCEPT !.voiceEngine.microphone = @ - 1,
                              !.voiceEngine.isListening = FALSE]
  /\ ev' = [NoEvent EXCEPT !.op = "getUserMedia",
                           !.branch = "startListening",
                           !.effect = IF granted THEN "record" ELSE "none",
                           !.threw = ~granted]
  /\ UNCHANGED <<config, intentCache, waitingForConfirmation, lastCommand,
                 lastCommandAge, actionHistory, calls, lateOpenAI, delivered,
                 aiSpeech, tts, router, recognition, synth>>

\* the stop event of a recorder of the WhisperEngine: onstop sends the
\* recording to be transcribed (whisper-engine.ts 76-79)
WhisperEngine_recorderStops ==
  /\ assistant.voiceEngine.stopEvents > 0
  /\ assistant.voiceEngine.transcribing < MaxRecordings
  /\ assistant' = [assistant EXCEPT !.voiceEngine.stopEvents = @ - 1,
                                    !.voiceEngine.transcribing = @ + 1]
  /\ ev' = [NoEvent EXCEPT !.op = "onstop", !.effect = "fetch"]
  /\ UNCHANGED <<config, intentCache, waitingForConfirmation, lastCommand,
                 lastCommandAge, actionHistory, calls, lateOpenAI, delivered,
                 aiSpeech, tts, router, recognition, synth>>

\* the transcription request of the WhisperEngine is answered, with a
\* text or an error: cleanup() either way (81, 84), which drops the
\* recorder that the engine holds by now; stopListening returns the text
\* or null, and AIAssistant.stopListening drops what it returns
WhisperEngine_transcribed(ok) ==
  /\ assistant.voiceEngine.transcribing > 0
  /\ assistant' = [assistant EXCEPT !.voiceEngine.transcribing = @ - 1,
                                    !.voiceEngine.mediaRecorder = "none",
                                    !.voiceEngine.isRecording = FALSE]
  /\ ev' = [NoEvent EXCEPT !.op = "transcribed", !.threw = ~ok]
  /\ UNCHANGED <<config, intentCache, waitingForConfirmation, lastCommand,
                 lastCommandAge, actionHistory, calls, lateOpenAI, delivered,
                 aiSpeech, tts, router, recognition, synth>>

\* destroy(): voiceEngine.stopListening(), and isInitialized is reset.
\* VoiceEngine.destroy() is not called
AIAssistant_destroy ==
  /\ VoiceEngine_stopListening(assistant.voiceEngine).stopEvents
       <= MaxRecordings
  /\ assistant' = [assistant EXCEPT
                     !.isInitialized = FALSE,
                     !.voiceEngine = VoiceEngine_stopListening(@)]
  /\ ev' = [NoEvent EXCEPT !.op = "destroy"]
  /\ UNCHANGED <<config, intentCache, waitingForConfirmation, lastCommand,
                 lastCommandAge, actionHistory, calls, lateOpenAI, delivered,
                 aiSpeech, tts, router, recognition, synth>>

\* an assistant with and without useWhisper and openaiApiKey
AssistantInit ==
  /\ Constructed(DuplicateWindowMs)
  /\ ~config.autoStart /\ ~config.hyperclovaApiKey /\ ~config.useAIIntent

AssistantSpec ==
  AssistantInit
    /\ [][\/ AIAssistant_initialize
          \/ AIAssistant_initialized
          \/ \E method \in {"startListening", "speak", "scanPage",
                            "findElement"} : AIAssistant_call(method)
          \/ AIAssistant_stopListening
          \/ VoiceEngine_sessionEnds
          \/ \E granted \in BOOLEAN : WhisperEngine_microphoneAnswers(granted)
          \/ WhisperEngine_recorderStops
          \/ \E ok \in BOOLEAN : WhisperEngine_transcribed(ok)
          \/ CommandRouter_registerCommand(HomeCommand)
          \/ CommandRouter_removeCommand({<<"hom">>})
          \/ AIAssistant_destroy]_vars
(***************************************************************************)
(* Properties.                                                             *)
(***************************************************************************)

\* C1: analyzeIntent never rejects.  Whatever the classifier calls do
\* (answer, non-200 response, unparsable body, network error, timeout), the
\* promise resolves with an intent result, and when the last classifier
\* call of the resolution failed that result is the pattern matcher's.
C1_ResolveNeverRejects ==
  /\ ev.outcome # "rejected"
  /\ (ev.outcome = "resolved" /\ ev.remote \in {"rejected", "timeout"})
       => ev.result = matchBasicPatterns(ev.transcript)

\* both classifiers failed and the resolution returned unknown
C1_Witness ==
  /\ ev.op = "hyperclova"
  /\ ev.remote = "rejected"
  /\ lateOpenAI # EmptyBag
  /\ ev.outcome = "resolved"
  /\ ev.result.intent = "unknown"

\* C2: analyzeIntent terminates.  Every invocation that is waiting on a
\* classifier comes to resolve with an intent result, under every
\* configuration, whatever the classifiers do: answer, fail, or not answer.
C2_ResolveTerminates ==
  \A i \in Slots : (calls[i].pc # "idle") ~> (ev.outcome = "resolved")

\* C3: every result analyzeIntent returns has a confidence in [0,1] and an
\* intent of the fixed vocabulary, whatever the remote bodies are.
C3_ResultWellFormed ==
  ev.outcome = "resolved" =>
    /\ ev.result.confidence \in 0..100
    /\ ev.result.intent \in
         {"click", "search", "navigate", "scroll", "input", "read", "login",
          "confirm", "cancel", "help", "select", "order", "clear", "unknown"}

\* C4: cache idempotence.  Once analyzeIntent has returned a result for a
\* normalised transcript, a later call for the same normalised transcript
\* calls no classifier and returns that result: the one result ever
\* returned for it.
C4_CacheIdempotence ==
  [][(/\ ev'.op = "onresult"
      /\ ev'.transcript # Undefined
      /\ Memo(normalizedOf, ev'.transcript, Normalize(ev'.transcript)) \in DOMAIN delivered)
       => (/\ ev'.fetched = {}
           /\ ev'.outcome = "resolved"
           /\ delivered[Memo(normalizedOf, ev'.transcript, Normalize(ev'.transcript))]
                = {ev'.result})]_vars

\* C5: fast-first ordering.  Each classifier is called at most once in a
\* resolution; with both credentials, a resolution that misses the cache
\* calls the fast classifier first, and the context classifier is called
\* only when the fast one has timed out, failed or answered with a
\* confidence of at most 0.5.
C5_FastFirstOrdering ==
  /\ \A i \in Slots : calls[i].openaiCalls <= 1 /\ calls[i].hyperclovaCalls <= 1
  /\ (config.openaiApiKey /\ config.hyperclovaApiKey) =>
       /\ (ev.op = "onresult" /\ ev.transcript # Undefined /\ ~ev.hit
             /\ config.useAIIntent) => ev.fetched = {"openai"}
       /\ "openai" \in ev.fetched => ev.op = "onresult"
       /\ "hyperclova" \in ev.fetched =>
            /\ ev.op \in {"openai", "timeout"}
            /\ \/ ev.remote \in {"rejected", "timeout"}
               \/ ev.answer.confidence <= 50
            /\ ev.op = "timeout" => ev.waited >= 2000
       /\ \A i \in Slots : calls[i].pc = "hyperclova" => calls[i].openaiCalls = 1

\* with both credentials, the context classifier is called after the fast
\* one answered with confidence 0.5
C5_Witness ==
  /\ config.openaiApiKey /\ config.hyperclovaApiKey
  /\ ev.op = "openai"
  /\ ev.remote = "fulfilled"
  /\ ev.answer.confidence = 50
  /\ ev.fetched = {"hyperclova"}
  /\ calls[1].openaiCalls = 1 /\ calls[1].hyperclovaCalls = 1

\* C6: acceptance thresholds.  A fast-classifier result is returned and
\* cached, with no further step, exactly when its confidence is above 0.5; a
\* context-classifier result is returned and cached exactly when its
\* confidence is at least 0.6.
C6_AcceptanceThresholds ==
  LET accepted == /\ ev.outcome = "resolved"
                  /\ ev.fetched = {}
                  /\ ev.result = ev.answer
                  /\ Memo(normalizedOf, ev.transcript, Normalize(ev.transcript))
                       \in DOMAIN intentCache
                  /\ intentCache[Memo(normalizedOf, ev.transcript, Normalize(ev.transcript))]
                       = ev.answer
  IN /\ (ev.op = "openai" /\ ev.remote = "fulfilled")
          => (accepted <=> ev.answer.confidence > 50)
     /\ (ev.op = "hyperclova" /\ ev.remote = "fulfilled")
          => (accepted <=> ev.answer.confidence >= 60)

\* the context classifier's answer of confidence exactly 0.6 is returned
C6_Witness ==
  /\ ev.op = "hyperclova"
  /\ ev.remote = "fulfilled"
  /\ ev.answer.confidence = 60
  /\ ev.answer.source = "hyperclova-context"
  /\ ev.outcome = "resolved"
  /\ ev.result = ev.answer

\* C7: pattern-matcher fallback.  A resolution that misses the cache and
\* accepts no remote result returns the pattern matcher's result for the
\* transcript and caches it, whatever its confidence; without credentials,
\* or with AI intent disabled, no network call is made.
C7_PatternFallback ==
  LET accepted ==
        /\ ev.remote = "fulfilled"
        /\ \/ ev.op = "openai" /\ ev.answer.confidence > 50
           \/ ev.op = "hyperclova" /\ ev.answer.confidence >= 60
  IN /\ (ev.outcome = "resolved" /\ ~ev.hit /\ ~accepted) =>
          /\ ev.result = matchBasicPatterns(ev.transcript)
          /\ Memo(normalizedOf, ev.transcript, Normalize(ev.transcript)) \in DOMAIN intentCache
          /\ intentCache[Memo(normalizedOf, ev.transcript, Normalize(ev.transcript))] = ev.result
     /\ (~config.useAIIntent \/ (~config.openaiApiKey /\ ~config.hyperclovaApiKey))
          => /\ ev.fetched = {}
             /\ lateOpenAI = EmptyBag
             /\ \A i \in Slots : calls[i].pc = "idle"

\* after the context classifier's answer fell short of its threshold, the
\* pattern matcher's unknown, of confidence 0.1, is returned and cached
C7_Witness ==
  /\ ev.op = "hyperclova"
  /\ ev.remote = "fulfilled"
  /\ ev.answer.confidence = 59
  /\ ev.outcome = "resolved"
  /\ ev.result.source = "none"
  /\ ev.result.confidence = 10
  /\ intentCache[Memo(normalizedOf, ev.transcript, Normalize(ev.transcript))] = ev.result

\* C8: the fast classifier's timeout.  No invocation waits for the fast
\* classifier beyond 2000 ms: when the timer fires the resolution goes on to
\* the context classifier or to the pattern matcher; and a fast-classifier
\* answer or error that arrives after that changes nothing of the
\* assistant's state.
C8_FastTimeout ==
  /\ [](/\ \A i \in Slots :
             calls[i].pc = "openai" => calls[i].age < OpenAITimeoutMs + TickMs
        /\ ev.op = "timeout" =>
             /\ ev.waited >= 2000
             /\ ev.waited < 2000 + TickMs
             /\ \/ ev.fetched = {"hyperclova"}
                \/ /\ ev.outcome = "resolved"
                   /\ ev.result = matchBasicPatterns(ev.transcript))
  /\ [][ev'.op = "late" =>
          UNCHANGED <<config, intentCache, waitingForConfirmation, lastCommand,
                      lastCommandAge, actionHistory, calls, delivered>>]_vars

\* an answer the fast classifier would have had accepted arrives late, and
\* the cache still holds what the resolution returned
C8_Witness ==
  /\ ev.op = "late"
  /\ ev.answer.confidence > 50
  /\ normalizedOf[U_OK] \in DOMAIN intentCache
  /\ intentCache[normalizedOf[U_OK]].source # "openai"

\* C9: the pending confirmation.  A final result that is no echo and no
\* repetition within the duplicate window, recognised with a confidence the
\* handler does not ignore, and arriving while a confirmation is pending,
\* resolves or discards that confirmation: once the result is handled the
\* slot is empty, or holds the new utterance in place of the old command.
C9_PendingResolved ==
  (/\ ev.op = "onresult"
   /\ ev.gate \notin {"interim", "echo", "duplicate"}
   /\ ev.confidence > ConfirmAbove
   /\ ev.pending # NoPending)
    => \/ waitingForConfirmation = NoPending
       \/ ev.gate = "confirm" /\ waitingForConfirmation = Pending(ev.heard)

\* C10: the affirmative answer.  While a confirmation is pending, a final
\* result the recogniser is sure of (no echo, no repetition) that holds a
\* word of the affirmative list empties the slot and hands the stored
\* original command to analyzeIntent.
C10_AffirmativeResubmits ==
  (/\ ev.op = "onresult"
   /\ ev.gate \notin {"interim", "echo", "duplicate"}
   /\ ev.confidence > ProcessAbove
   /\ ev.pending # NoPending
   /\ isConfirmationResponse(Normalize(ev.heard)))
    => /\ waitingForConfirmation = NoPending
       /\ ev.branch = "affirm"
       /\ ev.transcript = ev.pending.originalCommand

\* C11: cancelling a pending confirmation.  While a confirmation is pending,
\* a final result the handler does not ignore (no echo, no repetition) that
\* holds a cancellation keyword empties the slot and causes no intent
\* resolution and no action: analyzeIntent is not called, nothing is
\* executed, and the action history and the intent cache stay as they are.
C11_CancelPending ==
  [][(/\ ev'.op = "onresult"
      /\ ev'.gate \notin {"interim", "echo", "duplicate"}
      /\ ev'.confidence > ConfirmAbove
      /\ waitingForConfirmation # NoPending
      /\ Memo(isCancellationOf,
              Memo(normalizedOf, ev'.heard, Normalize(ev'.heard)),
              isCancellation(Normalize(ev'.heard))))
       => (/\ waitingForConfirmation' = NoPending
           /\ ev'.transcript = Undefined
           /\ ev'.fetched = {}
           /\ ~ev'.executed
           /\ actionHistory' = actionHistory
           /\ intentCache' = intentCache)]_vars

\* C12: with no confirmation pending, a final result (no echo, no
\* repetition) recognised with a confidence of the middle band, above 0.3
\* and at most 0.5, is stored as the pending original command, is asked
\* about (... 맞나요?), and is neither resolved nor executed.
C12_EnterConfirmation ==
  (/\ ev.op = "onresult"
   /\ ev.gate \notin {"interim", "echo", "duplicate"}
   /\ ev.confidence > ConfirmAbove /\ ev.confidence <= ProcessAbove
   /\ ev.pending = NoPending)
    => /\ waitingForConfirmation = Pending(ev.heard)
       /\ ev.said = ev.heard \o IsItRight
       /\ ev.transcript = Undefined
       /\ ~ev.executed

\* C13 as stated: a final result is dropped as an echo exactly when the guard
\* is active, at most EchoGuardMs old and EchoMatches of its keywords, or all
\* of them if it has fewer, occur in the transcript; past EchoGuardMs the
\* check leaves the guard inactive (seen where the handler starts no
\* playback of its own)
C13_EchoDecision ==
  [][(ev'.op = "onresult" /\ ev'.gate # "interim") =>
       /\ ev'.gate = "echo" <=>
            /\ aiSpeech.active
            /\ aiSpeech.age <= EchoGuardMs
            /\ Cardinality({k \in 1..Len(aiSpeech.keywords) :
                              Includes(ToLowerCase(ev'.heard), aiSpeech.keywords[k])})
                 >= Min(EchoMatches, Len(aiSpeech.keywords))
       /\ (aiSpeech.age > EchoGuardMs /\ tts' = tts) => ~aiSpeech'.active]_vars

\* C13, amended: a final result is dropped as an echo exactly when the guard
\* is active, has a keyword, is at most EchoGuardMs old and EchoMatches of
\* its keywords, or its only one, occur in the transcript; past EchoGuardMs
\* the check clears a guard that has keywords, and a guard without keywords
\* is left as it is
C13_EchoDecisionAmended ==
  [][(ev'.op = "onresult" /\ ev'.gate # "interim") =>
       /\ ev'.gate = "echo" <=>
            /\ aiSpeech.active
            /\ Len(aiSpeech.keywords) > 0
            /\ aiSpeech.age <= EchoGuardMs
            /\ Cardinality({k \in 1..Len(aiSpeech.keywords) :
                              Includes(ToLowerCase(ev'.heard), aiSpeech.keywords[k])})
                 >= Min(EchoMatches, Len(aiSpeech.keywords))
       /\ (aiSpeech.age > EchoGuardMs /\ Len(aiSpeech.keywords) > 0 /\ tts' = tts)
            => ~aiSpeech'.active /\ aiSpeech'.keywords = <<>>
       /\ (aiSpeech.age <= EchoGuardMs /\ tts' = tts) => aiSpeech' = aiSpeech
       /\ (Len(aiSpeech.keywords) = 0 /\ tts' = tts) => aiSpeech' = aiSpeech]_vars

\* OK is being said, and OK is heard and dropped: the one keyword suffices
C13_Witness ==
  /\ ev.op = "onresult"
  /\ ev.gate = "echo"
  /\ ev.heard = U_OK
  /\ aiSpeech.active
  /\ aiSpeech.keywords = <<U_ok>>
  /\ aiSpeech.age <= EchoGuardMs

\* C14: while the guard set by 장바구니를 열었습니다 is active, the final
\* result 장바구니 열었 is dropped as an echo if it comes within EchoGuardMs
\* of the start of the speech, and is not if it comes later
C14_CartEcho ==
  [][(/\ ev'.op = "onresult"
      /\ ev'.gate # "interim"
      /\ ev'.heard = CartHeard
      /\ aiSpeech.active
      /\ aiSpeech.keywords = spokenOf[CartOpened].guard.keywords)
       => (ev'.gate = "echo" <=> aiSpeech.age <= EchoGuardMs)]_vars

\* C15 as stated: the guard is not active when its activation is more than
\* EchoGuardMs old
C15_GuardBound == aiSpeech.active => aiSpeech.age <= EchoGuardMs

\* C15, amended: no result is dropped as an echo when the activation of the
\* guard is more than EchoGuardMs old, whether or not the end of the speech
\* was signalled; and the guard's flag is cleared only by the end or error
\* event of a single utterance, or by the echo check of a final result made
\* more than EchoGuardMs after the activation of a guard that has keywords
C15_GuardBoundAmended ==
  [][/\ (ev'.op = "onresult" /\ ev'.gate = "echo")
          => aiSpeech.age <= EchoGuardMs
     /\ (aiSpeech.active /\ ~aiSpeech'.active)
          => \/ /\ ev'.op \in {"onend", "onerror"}
                /\ tts.stale > 0 \/ tts.kind = "single"
             \/ /\ ev'.op = "onresult"
                /\ ev'.gate # "interim"
                /\ aiSpeech.age > EchoGuardMs
                /\ aiSpeech.keywords # <<>>]_vars

\* a text has been playing for longer than EchoGuardMs, no end signalled;
\* its own words are heard and are not dropped, and the check has cleared
\* the guard
C15_Witness ==
  /\ ev.op = "onresult"
  /\ ev.gate = "confirm"
  /\ ev.heard = CartOpened
  /\ tts.isSpeaking
  /\ tts.kind = "single"
  /\ ~aiSpeech.active
  /\ aiSpeech.age > EchoGuardMs

\* C16: a playback that starts finds the guard set at that moment, and a
\* playback that ends or fails leaves the guard inactive
C16_GuardBracketsPlayback ==
  [][/\ (~tts.isSpeaking /\ tts'.isSpeaking)
          => aiSpeech'.active /\ aiSpeech'.age = 0
     /\ (tts.isSpeaking /\ ~tts'.isSpeaking) => ~aiSpeech'.active]_vars

\* C17 of the standalone assistant's handleCancellation (218-242): it takes
\* the newest entry off the history, undoes that entry and leaves the older
\* ones as they were; on an empty history it goes back in the browser's
\* history and the history stays empty
C17_UndoNewest ==
  [][ev'.op = "undo" =>
       IF Len(actionHistory) > 0
       THEN /\ actionHistory' = SubSeq(actionHistory, 1, Len(actionHistory) - 1)
            /\ ev'.effect = IF actionHistory[Len(actionHistory)].type = "scroll"
                            THEN "restore" ELSE "back"
       ELSE /\ actionHistory' = <<>>
            /\ ev'.effect = "back"]_vars

\* a click, a scroll and a click were recorded; the undo has gone back for
\* the last click and has left the click and the scroll
C17_Witness ==
  /\ ev.op = "undo"
  /\ ev.before = <<[type |-> "click"], [type |-> "scroll"], [type |-> "click"]>>
  /\ ev.effect = "back"
  /\ actionHistory = <<[type |-> "click"], [type |-> "scroll"]>>

\* C17 of KoreanCancellationManager.handleCancellation, whose history has
\* its newest entry first: the call undoes the newest entry, which is
\* removed when the undo is done, the older ones staying; on an empty
\* history it goes back in the browser's history and the history stays
\* empty
C17_ManagerUndoNewest ==
  [][ev'.op = "handleCancellation" =>
       IF router.history # <<>>
       THEN /\ ev'.executed
            /\ router'.history = router.history
            /\ router'.pending = Append(router.pending, "shift")
       ELSE /\ ev'.effect = "back"
            /\ router'.history = <<>>]_vars

\* C18: the history never holds more than MaxHistory entries, and an action
\* recorded on a full history pushes the oldest entry out: the others keep
\* their order and the new entry comes last
C18_BoundedHistory ==
  [][/\ Len(actionHistory') <= MaxHistory
     /\ (ev'.op = "record" /\ Len(actionHistory) = MaxHistory)
          => /\ Len(actionHistory') = MaxHistory
             /\ SubSeq(actionHistory', 1, MaxHistory - 1) = Tail(actionHistory)
     /\ (ev'.op = "record" /\ Len(actionHistory) < MaxHistory)
          => SubSeq(actionHistory', 1, Len(actionHistory)) = actionHistory]_vars

\* a scroll was recorded on a full history that began with a click and a
\* scroll: the click is gone, and the scroll is the newest entry
C18_Witness ==
  /\ ev.op = "record"
  /\ Len(ev.before) = MaxHistory
  /\ ev.before[1].type = "click"
  /\ ev.before[2].type = "scroll"
  /\ ev.before[MaxHistory].type = "click"
  /\ Len(actionHistory) = MaxHistory
  /\ actionHistory[1].type = "scroll"
  /\ actionHistory[MaxHistory].type = "scroll"

\* C19: a cancellation executed right after a scroll restores the scroll
\* position, and one executed right after a click goes back in the
\* browser's history
C19_UndoByType ==
  [][(/\ ev.executed
      /\ ev'.op = "onresult"
      /\ ev'.executed
      /\ ev'.result.intent = "cancel")
       => /\ ev.effect = "scroll" => ev'.effect = "restore"
          /\ ev.effect = "click" => ev'.effect = "back"]_vars

\* C20: a final result that is processed with no confirmation pending and
\* holds a cancellation keyword is undone at once: analyzeIntent is not
\* called for it, so no classifier is fetched and no pattern is matched
C20_CancelShortCircuit ==
  (/\ ev.op = "onresult"
   /\ ev.gate = "process"
   /\ ev.pending = NoPending
   /\ isCancellation(Normalize(ev.heard)))
    => /\ ev.transcript = Undefined
       /\ ev.fetched = {}
       /\ ev.result = NoResult
       /\ ev.effect \in {"restore", "back"}

\* C21: when the action last recorded is that of a default command which
\* the router has executed, no call being suspended at an await, a
\* cancellation utterance is carried out: handleCancellation undoes the
\* action, and the removal of its entry from the history is what the call
\* goes on with after its await
C21_RouterCancelUndoes ==
  [][(/\ router.pending = <<>>
      /\ router.history # <<>>
      /\ \E c \in DOMAIN DefaultCommands :
            router.history[1].action = DefaultCommands[c].description
      /\ ev'.op = "router"
      /\ ev'.branch = "cancel")
       => /\ ev'.executed
          /\ router'.pending = <<"shift">>]_vars

\* C22: what the pattern matcher returns for a transcript is the intent and
\* the declared confidence of the first rule one of whose keywords is a
\* whole word of the transcript; if there is no such rule, the intent of the
\* first rule one of whose keywords occurs in the transcript, at four fifths
\* of its declared confidence; and unknown at 0.1 if there is none either
C22_PatternPolicy ==
  (ev.outcome = "resolved"
     /\ ev.result.source \in {"exact_pattern", "partial_pattern", "none"})
    => LET words == SplitWhitespace(ev.transcript)
           rules == 1..Len(enhancedPatterns)
           exact == {r \in rules :
                       \E k \in 1..Len(enhancedPatterns[r].keywords) :
                         \E w \in 1..Len(words) :
                           words[w] = enhancedPatterns[r].keywords[k]}
           partial == {r \in rules :
                         \E k \in 1..Len(enhancedPatterns[r].keywords) :
                           Includes(ev.transcript, enhancedPatterns[r].keywords[k])}
           First(S) == CHOOSE r \in S : \A q \in S : r <= q
       IN IF exact # {}
          THEN /\ ev.result.intent = enhancedPatterns[First(exact)].intent
               /\ ev.result.confidence = enhancedPatterns[First(exact)].confidence
          ELSE IF partial # {}
          THEN /\ ev.result.intent = enhancedPatterns[First(partial)].intent
               /\ ev.result.confidence * 5
                    = enhancedPatterns[First(partial)].confidence * 4
          ELSE /\ ev.result.intent = "unknown"
               /\ ev.result.confidence = 10

\* C23: with no credentials configured, 아아 주세요 resolves to the
\* intent select, the target 아메리카노 and the confidence 0.95, and 맥날 갈래
\* to a target holding 맥도날드, a confidence of 0.9 or more and a source
\* that names a cultural match
C23_Abbreviations ==
  (/\ ev.op = "onresult"
   /\ ev.outcome = "resolved"
   /\ ~config.openaiApiKey
   /\ ~config.hyperclovaApiKey)
    => /\ ev.heard = enhancedOf[<<"'a", "'a", " ", "ju", "se", "'yo">>]
            => /\ ev.result.intent = "select"
               /\ ev.result.target = <<"'a", "me", "ri", "ka", "no">>
               /\ ev.result.confidence = 95
       /\ ev.heard = enhancedOf[<<"maeg", "nal", " ", "gal", "rae">>]
            => /\ Includes(ev.result.target, <<"maeg", "do", "nal", "deu">>)
               /\ ev.result.confidence >= 90
               /\ ev.result.source \in {"basic_pattern_cultural", "hyperclova_cultural"}

\* C24: serialized processing.  A recognised result is handed to
\* processCommand only while no resolution of an earlier utterance is in
\* flight: every invocation of analyzeIntent has settled.
C24_Serialized ==
  [][(ev'.op = "onresult" /\ ev'.gate = "process")
       => \A i \in Slots : calls[i].pc = "idle"]_vars

\* C25 (as stated): recognition errors are not retried.  After the
\* recogniser has reported a network error, no recognition.start() is
\* issued as a consequence of it: the timer the error handler leaves
\* behind calls nothing.
C25_NoRetryAfterError ==
  [][~(/\ ev'.op = "timer"
       /\ ev'.branch = "network"
       /\ ev'.effect \in {"start", "throw"})]_vars

\* C25 (amended): microphone and permission errors are not retried.  The
\* error handler shows feedback, stops listening and leaves no timer
\* behind, and while the assistant is not listening no timer calls
\* recognition.start().  After a network error the handler shows feedback
\* and leaves a timer that calls recognition.start() exactly when the
\* assistant is still listening.
C25_MicrophoneErrorsNotRetried ==
  [][/\ (ev'.op = "onerror" /\ ev'.branch \in {"audio-capture", "not-allowed"})
          => /\ ev'.effect = "feedback"
             /\ ~recognition'.isListening
             /\ recognition'.retry = recognition.retry
     /\ (ev'.op = "timer" /\ ~recognition.isListening) => ev'.effect = "none"
     /\ (ev'.op = "onerror" /\ ev'.branch = "network")
          => /\ ev'.effect = "feedback"
             /\ recognition'.retry.network = recognition.retry.network + 1
     /\ (ev'.op = "timer" /\ ev'.branch = "network")
          => (ev'.effect \in {"start", "throw"} <=> recognition.isListening)]_vars

\* a permission error has arrived while the restart of an earlier network
\* error was pending
C25_Witness ==
  /\ ev.op = "onerror"
  /\ ev.branch = "not-allowed"
  /\ recognition.retry.network > 0

\* C26: context-classifier recovery.  When the context classifier's
\* response has status success, an empty content and a reasoning trace, the
\* call returns a result: that of a topic rule whose keywords occur in the
\* trace or in the transcript, and when no rule's keywords occur,
\* {intent: search, confidence: 0.6, target: the transcript}.
C26_ThinkingRecovery ==
  (/\ ev.op = "hyperclova"
   /\ ev.response.status = "ok"
   /\ ev.response.type = "text"
   /\ ev.response.text = <<>>
   /\ ev.response.thinkingContent # <<>>)
    => LET trace == ToLowerCase(ev.response.thinkingContent)
           said == ToLowerCase(ev.transcript)
           found == {r \in 1..Len(thinkingRules) :
                       \/ IncludesSome(trace, thinkingRules[r].inContent)
                       \/ IncludesSome(said, thinkingRules[r].inTranscript)}
       IN /\ ev.remote = "fulfilled"
          /\ IF found = {}
             THEN /\ ev.answer.intent = "search"
                  /\ ev.answer.confidence = 60
                  /\ ev.answer.target = ev.transcript
             ELSE \E r \in found :
                    /\ ev.answer.intent = thinkingRules[r].intent
                    /\ ev.answer.source = thinkingRules[r].source

\* a trace without any keyword has been recovered from
C26_Witness ==
  /\ ev.op = "hyperclova"
  /\ ev.response = TextContent(<<>>, <<"h", "m">>)
  /\ ev.remote = "fulfilled"
  /\ ev.answer.confidence = 60
  /\ ev.answer.target = ev.transcript

\* C27: an unrelated reply while a confirmation is pending.  A final
\* result the recogniser is sure of (no echo, no repetition) that holds
\* neither an affirmative word nor a cancellation keyword, arriving while
\* a confirmation is pending, empties the slot, is itself the transcript
\* handed to analyzeIntent, and leaves no invocation working on the
\* pending command.
C27_UnrelatedReply ==
  (/\ ev.op = "onresult"
   /\ ev.gate \notin {"interim", "echo", "duplicate"}
   /\ ev.confidence > ProcessAbove
   /\ ev.pending # NoPending
   /\ ~isConfirmationResponse(Normalize(ev.heard))
   /\ ~isCancellation(Normalize(ev.heard)))
    => /\ waitingForConfirmation = NoPending
       /\ ev.branch = "new"
       /\ ev.transcript = ev.heard
       /\ \A i \in Slots :
            calls[i].pc # "idle" => calls[i].transcript = ev.heard

\* C28: the execution gate.  Once analyzeIntent has returned a result,
\* processCommand calls executeIntentAction exactly when the result's
\* confidence is above 0.4; otherwise nothing is executed, the action
\* history stays as it is and the user is asked to say the command again.
C28_ExecutionGate ==
  [][ev'.outcome = "resolved"
       => /\ ev'.executed <=> ev'.result.confidence > ExecuteAbove
          /\ ~ev'.executed
               => /\ actionHistory' = actionHistory
                  /\ ev'.effect = "none"
                  /\ ev'.said = SayAgain]_vars

\* a result below the gate has been refused
C28_Witness ==
  /\ ev.outcome = "resolved"
  /\ ev.result.confidence <= ExecuteAbove
  /\ ~ev.executed
  /\ ev.said = SayAgain

\* C29 (as stated): duplicate suppression.  A final result whose
\* transcript is the last processed transcript, arriving less than 400 ms
\* after it, is dropped: processCommand is not called, nothing is said and
\* no part of the assistant's state changes.
C29_DuplicateDropped ==
  [][(/\ ev'.op = "onresult"
      /\ ev'.gate # "interim"
      /\ ev'.heard = lastCommand
      /\ lastCommandAge < DuplicateWindowMs)
       => /\ ev'.gate \in {"duplicate", "echo"}
          /\ ev'.transcript = Undefined
          /\ ev'.said = Undefined
          /\ UNCHANGED <<config, intentCache, waitingForConfirmation,
                         lastCommand, lastCommandAge, actionHistory, calls,
                         lateOpenAI, delivered, tts, router, recognition>>
          /\ aiSpeech' = aiSpeech]_vars

\* C29 (amended): the same, except that the echo check, which runs before
\* the duplicate test, clears an echo guard that is past its window.
C29_DuplicateDroppedAmended ==
  [][(/\ ev'.op = "onresult"
      /\ ev'.gate # "interim"
      /\ ev'.heard = lastCommand
      /\ lastCommandAge < DuplicateWindowMs)
       => /\ ev'.gate \in {"duplicate", "echo"}
          /\ ev'.transcript = Undefined
          /\ ev'.said = Undefined
          /\ UNCHANGED <<config, intentCache, waitingForConfirmation,
                         lastCommand, lastCommandAge, actionHistory, calls,
                         lateOpenAI, delivered, tts, router, recognition>>
          /\ \/ aiSpeech' = aiSpeech
             \/ /\ aiSpeech.active
                /\ aiSpeech.age > EchoGuardMs
                /\ aiSpeech' = markAISpeechComplete(aiSpeech)]_vars

\* a command has been dropped 300 ms after it was processed
C29_Witness ==
  /\ ev.op = "onresult"
  /\ ev.gate = "duplicate"
  /\ ev.heard = lastCommand
  /\ lastCommandAge = WindowTickMs

\* C30: atomic check and update.  An invocation of analyzeIntent that
\* writes the Intent Cache does so on the strength of its own check: when
\* it stores the result for its transcript, no other invocation has stored
\* one for that transcript since it found the cache empty there.
C30_AtomicCacheUpdate ==
  [][(/\ ev'.outcome = "resolved"
      /\ ~(ev'.op = "onresult" /\ ev'.hit))
       => Memo(normalizedOf, ev'.transcript, Normalize(ev'.transcript))
            \notin DOMAIN intentCache]_vars

\* C35: cache entries are written once.  An entry of the Intent Cache is
\* never replaced and never removed, also when two resolutions of one
\* normalised transcript overlap.
C35_CacheWriteOnce ==
  [][\A k \in DOMAIN intentCache :
       /\ k \in DOMAIN intentCache'
       /\ intentCache'[k] = intentCache[k]]_vars

\* C36: the recursion of the affirmative branch.  When a reply holds an
\* affirmative word, processCommand calls itself once with the original
\* command, the slot being empty by then: the call does not take the
\* confirmation branch again, whatever the original command holds, and the
\* original command is handed to analyzeIntent in one invocation.
C36_BoundedRecursion ==
  [][(ev'.op = "onresult" /\ ev'.branch = "affirm")
       => /\ ev'.depth = 1
          /\ waitingForConfirmation' = NoPending
          /\ ev'.transcript = waitingForConfirmation.originalCommand
          /\ Cardinality({i \in Slots : calls'[i] # calls[i]}) <= 1]_vars

\* the pending command itself holds an affirmative word, and so does the
\* reply
C36_Witness ==
  /\ ev.op = "onresult"
  /\ ev.branch = "affirm"
  /\ ev.pending # NoPending
  /\ isConfirmationResponse(Normalize(ev.pending.originalCommand))
  /\ ev.transcript = ev.pending.originalCommand

\* C37: the high-priority bypass.  A final result that holds a
\* high-priority word (취소, 아니야, 도움, 정지, 멈춰) and is not dropped as
\* an echo, a repetition or a short transcript is handed to processCommand
\* whatever the recogniser's confidence: it opens no confirmation and is
\* not ignored.
C37_HighPriorityBypass ==
  (/\ ev.op = "onresult"
   /\ ev.gate \notin {"interim", "echo", "duplicate", "short"}
   /\ isHighPriorityCommand(ev.heard))
    => /\ ev.gate = "process"
       /\ ev.said # ev.heard \o IsItRight
       /\ ev.branch \in {"plain", "affirm", "cancel", "new"}

\* 취소, heard with confidence 0.3, has been handed to processCommand
C37_Witness ==
  /\ ev.op = "onresult"
  /\ ev.heard = <<"chwi", "so">>
  /\ ev.confidence = 30
  /\ ev.gate = "process"

\* C38: an echo drop has no side effects.  A final result that the echo
\* filter drops leaves the pending confirmation, the Intent Cache, the
\* action history and lastCommand with its time as they are, starts no
\* intent resolution, executes nothing and says nothing.
C38_EchoDropNoEffect ==
  [][(/\ ev'.op = "onresult"
      /\ ev'.gate # "interim"
      /\ isAISpeechEcho(aiSpeech, ev'.heard).isEcho)
       => /\ ev'.gate = "echo"
          /\ UNCHANGED <<waitingForConfirmation, intentCache, actionHistory,
                         lastCommand, lastCommandAge, calls, delivered>>
          /\ ev'.transcript = Undefined
          /\ ev'.fetched = {}
          /\ ~ev'.executed
          /\ ev'.said = Undefined]_vars

\* an echo has been dropped while a confirmation was pending
C38_Witness ==
  /\ ev.op = "onresult"
  /\ ev.gate = "echo"
  /\ ev.pending # NoPending
  /\ aiSpeech.active

\* C39: the last-resort default is accepted.  When the context
\* classifier's call returns the default that extractIntentFromThinking
\* ends with, {search, 0.6}, analyzeIntent returns that result and caches
\* it, the pattern matcher is not consulted, and processCommand executes
\* the search: the page's search field is focused and announced, or its
\* absence is.
C39_DefaultAccepted ==
  [][(/\ ev'.op = "hyperclova"
      /\ ev'.remote = "fulfilled"
      /\ ev'.answer.source = "hyperclova_fallback")
       => /\ ev'.answer.intent = "search"
          /\ ev'.answer.confidence = 60
          /\ ev'.outcome = "resolved"
          /\ ev'.result = ev'.answer
          /\ LET normalized == Memo(normalizedOf, ev'.transcript,
                                    Normalize(ev'.transcript))
             IN /\ normalized \in DOMAIN intentCache'
                /\ intentCache'[normalized] = ev'.answer
          /\ ev'.executed
          /\ ev'.said \in {SearchSelected, NoSearchField}
          /\ ev'.effect = "focus" <=> ev'.said = SearchSelected]_vars

\* the default has been returned for a trace without any keyword, and
\* executed
C39_Witness ==
  /\ ev.op = "hyperclova"
  /\ ev.response = TextContent(<<>>, <<"h", "m">>)
  /\ ev.result.source = "hyperclova_fallback"
  /\ ev.result.confidence = 60
  /\ ev.executed
  /\ ev.effect = "focus"
  /\ ev.said = SearchSelected

\* C40: startListening, speak, scanPage and findElement throw unless
\* initialize() has completed and destroy() has not been called since, and
\* however many times initialize() is called, overlapping calls included,
\* the configured custom commands are registered exactly once.
C40_InitializeOnce ==
  /\ ev.op = "api" /\ ev.branch # "stopListening"
       => /\ ~assistant.isInitialized => ev.threw
          /\ (ev.threw /\ ev.branch # "startListening")
               => ~assistant.isInitialized
  /\ assistant.registered <= 1

\* C31: once speech output has started, isSpeaking is false again within
\* 10 seconds, whether or not the synthesizer dispatches an end or error
\* event, for one sentence and for several.
C31_SpeakingRecovers ==
  tts.isSpeaking => synth.speakingFor <= SafetyTimeoutMs

\* C34: the end or error event of an earlier utterance clears neither the
\* echo guard nor isSpeaking nor currentUtterance of a later utterance that
\* is being played.
C34_NoStaleCompletion ==
  [][(/\ ev'.op \in {"onend", "onerror"}
      /\ synth.queue # <<>>
      /\ Head(synth.queue).id > ev'.utterance)
       => /\ aiSpeech'.active = aiSpeech.active
          /\ tts'.isSpeaking = tts.isSpeaking
          /\ synth'.currentUtterance = synth.currentUtterance]_vars

\* C33: once stopListening() has returned, no step other than a new call of
\* start() invokes recognition.start() or sets isListening: no timer set
\* before the stop restarts recognition.
C33_StopIsFinal ==
  [][(ev.op = "stopListening" /\ ev'.op # "startListening")
       => /\ ~recognition'.isListening
          /\ ev'.effect \notin {"start", "throw"}]_vars

\* C32: while listening is enabled, a recognition session that has ended is
\* followed by the start of a new one, also when it ended while the
\* assistant was speaking.
C32_ListeningResumes ==
  (ev.op = "onend" /\ recognition.isListening)
    ~> (recognition.recognizer = "running" \/ ~recognition.isListening)
=============================================================================
